---------------------------- MODULE Spec2Model ----------------------------
(***************************************************************************)
(* Model of the STM32 PWM node firmware: the escape-encoded, CRC-checked   *)
(* frame codec (proto_cpp/src/frame.cpp), the StaticVec and CircularBuffer *)
(* containers (proto_cpp/include), and the receive path that extracts      *)
(* frames from the interrupt-fed ring buffer (Core/Src/command_handler.cpp *)
(* and Core/Src/usart_rx_handler.cpp).                                     *)
(***************************************************************************)
EXTENDS Integers, Sequences, FiniteSets, TLC

(***************************************************************************)
(* Program constants (frame.h, command_handler.h).                         *)
(***************************************************************************)
ESCAPE_BYTE == 27

BEGIN_FRAME_BYTE == 40

END_FRAME_BYTE == 41

ESCAPE_TABLE == << <<ESCAPE_BYTE, 65>>, <<BEGIN_FRAME_BYTE, 66>>, <<END_FRAME_BYTE, 67>> >>

FRAME_MAX_SIZE == 1280

FRAME_MIN_SIZE == 10

FRAME_DATA_MAX_SIZE == FRAME_MAX_SIZE - FRAME_MIN_SIZE - 2

LOCAL_ID == 100

\* 0x04C11DB7 and 0xFFFFFFFF; a uint32_t is kept as its two 16-bit halves
\* <<high, low>>
CRC_POLY_HI == 1217

CRC_POLY_LO == 7607

CRC_SEED_HALF == 65535

TwoTo8 == 2^8

TwoTo15 == 2^15

TwoTo16 == 2^16

(***************************************************************************)
(* Bounds of the model.                                                    *)
(***************************************************************************)
\* longest payload of the frames the model builds
MaxDataLen == 2

\* capacity of the small destination used to exercise BufferTooSmall
SmallOutCap == 11

\* capacity N of the StaticVec<uint8_t, N> instance of the container model
VecSize == 3

\* capacity C of the CircularBuffer<C> instance of the container model
RingSize == 3

\* number of operations recorded in the container histories
MaxOps == 5

\* capacity of the receive ring of the extraction model (gRxBuffer)
RxCap == 26

\* number of segments of a byte stream sent to the node
MaxSegs == 2

\* the timer clock in Hz, scaled down
TimerClock == 200

\* most arguments of a command the model issues
MaxArgs == 2

\* most bytes that follow the length field in a crafted input of the decoder
MaxFill == 5

(***************************************************************************)
(* Sequence helpers.                                                       *)
(***************************************************************************)
Min(a, b) == IF a < b THEN a ELSE b

Take(s, n) == SubSeq(s, 1, Min(n, Len(s)))

Drop(s, n) == SubSeq(s, n + 1, Len(s))

IsPrefix(p, s) == Len(p) <= Len(s) /\ SubSeq(s, 1, Len(p)) = p

(***************************************************************************)
(* StaticVec<T, SIZE> seen through span(): the sequence inner[0..head).    *)
(* vec_push_back gives the vector after push_back; the push is rejected    *)
(* exactly when the vector is returned unchanged.                          *)
(***************************************************************************)
vec_push_back(v, SIZE, val) == IF Len(v) < SIZE THEN Append(v, val) ELSE v

vec_push_rejected(v, SIZE) == ~(Len(v) < SIZE)

\* push_slice: push_back of each element, stopping at the first rejection
push_slice(v, SIZE, data) == v \o Take(data, SIZE - Len(v))

(***************************************************************************)
(* bytes.h: big-endian conversions of the unsigned field types.            *)
(***************************************************************************)
to_be_bytes8(n) == << n % TwoTo8 >>

to_be_bytes16(n) == << (n \div TwoTo8) % TwoTo8, n % TwoTo8 >>

\* a uint32_t <<high, low>> as four big-endian bytes, and back
to_be_bytes32(n) ==
    << n[1] \div TwoTo8, n[1] % TwoTo8, n[2] \div TwoTo8, n[2] % TwoTo8 >>

\* the two bytes read in little-endian order
from_le_bytes16(arr) == arr[2] * TwoTo8 + arr[1]

from_be_bytes16(arr) == arr[1] * TwoTo8 + arr[2]

from_be_bytes32(arr) == << arr[1] * TwoTo8 + arr[2], arr[3] * TwoTo8 + arr[4] >>

(***************************************************************************)
(* 32-bit unsigned arithmetic of crc32_calculate, on <<high, low>> halves. *)
(***************************************************************************)
RECURSIVE BitXor(_, _, _)
BitXor(a, b, n) ==
    IF n = 0 THEN 0
    ELSE (((a % 2) + (b % 2)) % 2) + 2 * BitXor(a \div 2, b \div 2, n - 1)

\* exclusive or on four bits, tabulated once
XorNibble == [a \in 0..15 |-> [b \in 0..15 |-> BitXor(a, b, 4)]]

\* a bitwise operation on 16 bits, nibble by nibble
Bitwise16(table, a, b) ==
    table[a % 16][b % 16]
      + 16 * table[(a \div 16) % 16][(b \div 16) % 16]
      + 256 * table[(a \div 256) % 16][(b \div 256) % 16]
      + 4096 * table[(a \div 4096) % 16][(b \div 4096) % 16]

Xor32(a, b) == << Bitwise16(XorNibble, a[1], b[1]), Bitwise16(XorNibble, a[2], b[2]) >>

\* crc << 1, the bit shifted out of the low half carried into the high half
Shl32(a) == << ((a[1] * 2) % TwoTo16) + (a[2] \div TwoTo15), (a[2] * 2) % TwoTo16 >>

\* (0 - msb) & 0x04C11DB7: the mask is 0 for msb = 0 and 0xFFFFFFFF for
\* msb = 1, so the result is 0 or the polynomial
PolyMask(msb) == << msb * CRC_POLY_HI, msb * CRC_POLY_LO >>

\* one pass of the inner loop: msb = crc >> 31; crc <<= 1; crc ^= (0 - msb) & poly
crc32_bit(crc) ==
    LET msb == crc[1] \div TwoTo15
    IN  Xor32(Shl32(crc), PolyMask(msb))

RECURSIVE crc32_bits(_, _)
crc32_bits(crc, j) ==
    IF j = 0 THEN crc
    ELSE LET next == crc32_bit(crc)
         \* the test makes the register a value before the next pass
         IN  IF next[1] >= 0 THEN crc32_bits(next, j - 1) ELSE next

\* crc ^= data[i] << 24, then the eight shifts
crc32_byte(crc, byte) == crc32_bits(Xor32(crc, << byte * TwoTo8, 0 >>), 8)

\* the loop over data[lo..hi], taken in two halves so that long inputs
\* evaluate in logarithmic depth
RECURSIVE crc32_from(_, _, _, _)
crc32_from(crc, data, lo, hi) ==
    IF lo > hi THEN crc
    ELSE IF lo = hi THEN crc32_byte(crc, data[lo])
    ELSE LET mid == (lo + hi) \div 2
             half == crc32_from(crc, data, lo, mid)
         IN  IF half[1] >= 0 THEN crc32_from(half, data, mid + 1, hi) ELSE half

crc32_calculate(data) == crc32_from(<<CRC_SEED_HALF, CRC_SEED_HALF>>, data, 1, Len(data))

RECURSIVE pad4(_)
pad4(buf) == IF Len(buf) % 4 = 0 THEN buf ELSE pad4(vec_push_back(buf, FRAME_MAX_SIZE, 0))

\* Frame::crc32: sender, receiver, u16 length, data in a StaticVec<FRAME_MAX_SIZE>,
\* zero padded to a multiple of four
Frame_crc32(f) ==
    LET b1 == push_slice(<<>>, FRAME_MAX_SIZE, to_be_bytes8(f.sender))
        b2 == push_slice(b1, FRAME_MAX_SIZE, to_be_bytes8(f.receiver))
        b3 == push_slice(b2, FRAME_MAX_SIZE, to_be_bytes16(Len(f.data) % TwoTo16))
        b4 == push_slice(b3, FRAME_MAX_SIZE, f.data)
    IN  crc32_calculate(pad4(b4))

(***************************************************************************)
(* frame.cpp: encoding.  A destination IStaticVec is its contents `out`    *)
(* and its capacity SIZE.                                                  *)
(***************************************************************************)
\* index of the first ESCAPE_TABLE row whose column `col` holds `byte`, 0 if none
escape_row(byte, col) ==
    LET rows == { k \in DOMAIN ESCAPE_TABLE : ESCAPE_TABLE[k][col] = byte }
    IN  IF rows = {} THEN 0 ELSE CHOOSE k \in rows : \A j \in rows : k <= j

\* encode_byte that escapes nothing
encode_byte_raw(byte, out, SIZE) == vec_push_back(out, SIZE, byte)

encode_byte_no_return(byte, out, SIZE) ==
    LET k == escape_row(byte, 1)
        o == IF k # 0
             THEN vec_push_back(vec_push_back(out, SIZE, ESCAPE_BYTE), SIZE, ESCAPE_TABLE[k][2])
             ELSE out
    IN  vec_push_back(o, SIZE, byte)

encode_byte(byte, out, SIZE) ==
    LET k == escape_row(byte, 1)
    IN  IF k # 0
        THEN vec_push_back(vec_push_back(out, SIZE, ESCAPE_BYTE), SIZE, ESCAPE_TABLE[k][2])
        ELSE vec_push_back(out, SIZE, byte)

\* the loop over data[lo..hi], taken in two halves so that long inputs
\* evaluate in logarithmic depth
RECURSIVE encode_from(_, _, _, _, _)
encode_from(data, lo, hi, out, SIZE) ==
    IF lo > hi THEN out
    ELSE IF lo = hi THEN encode_byte(data[lo], out, SIZE)
    ELSE LET mid == (lo + hi) \div 2
             half == encode_from(data, lo, mid, out, SIZE)
         IN  IF Len(half) >= 0 THEN encode_from(data, mid + 1, hi, half, SIZE) ELSE half

encode_bytes(data, out, SIZE) == encode_from(data, 1, Len(data), out, SIZE)

serialize_fields(frame, out, SIZE) ==
    LET o1 == encode_bytes(to_be_bytes8(frame.sender), out, SIZE)
        o2 == encode_bytes(to_be_bytes8(frame.receiver), o1, SIZE)
        o3 == encode_bytes(to_be_bytes16(Len(frame.data) % TwoTo16), o2, SIZE)
    IN  encode_bytes(frame.data, o3, SIZE)

\* Frame::serialize_into: the error code and the destination afterwards
serialize_into(frame, out, SIZE) ==
    IF Len(frame.data) > FRAME_DATA_MAX_SIZE
    THEN [err |-> "FrameTooLongError", out |-> out]
    ELSE LET o1 == vec_push_back(out, SIZE, BEGIN_FRAME_BYTE)
             o2 == serialize_fields(frame, o1, SIZE)
             o3 == encode_bytes(to_be_bytes32(Frame_crc32(frame)), o2, SIZE)
             buffer_full == vec_push_rejected(o3, SIZE)
             o4 == vec_push_back(o3, SIZE, END_FRAME_BYTE)
         IN  [err |-> IF buffer_full THEN "BufferTooSmall" ELSE "SerializeOk",
              out |-> o4]

(***************************************************************************)
(* frame.cpp: decoding.                                                    *)
(***************************************************************************)
\* decode_byte: the error, the decoded byte and the number of bytes read
decode_byte_any_code(data) ==
    IF Len(data) = 0 THEN [err |-> "UnexpectedEOF", out |-> 0, read |-> 0]
    ELSE IF data[1] = ESCAPE_BYTE
    THEN IF Len(data) = 1 THEN [err |-> "UnexpectedEOF", out |-> 0, read |-> 0]
         ELSE [err |-> "DeserializeOk", out |-> data[2], read |-> 2]
    ELSE IF data[1] = BEGIN_FRAME_BYTE \/ data[1] = END_FRAME_BYTE
    THEN [err |-> "InvalidByte", out |-> 0, read |-> 0]
    ELSE [err |-> "DeserializeOk", out |-> data[1], read |-> 1]

decode_byte(data) ==
    IF Len(data) = 0 THEN [err |-> "UnexpectedEOF", out |-> 0, read |-> 0]
    ELSE IF data[1] = ESCAPE_BYTE
    THEN IF Len(data) = 1 THEN [err |-> "UnexpectedEOF", out |-> 0, read |-> 0]
         ELSE LET k == escape_row(data[2], 2)
              IN  IF k # 0
                  THEN [err |-> "DeserializeOk", out |-> ESCAPE_TABLE[k][1], read |-> 2]
                  ELSE [err |-> "InvalidEscapeSequence", out |-> 0, read |-> 0]
    ELSE IF data[1] = BEGIN_FRAME_BYTE \/ data[1] = END_FRAME_BYTE
    THEN [err |-> "InvalidByte", out |-> 0, read |-> 0]
    ELSE [err |-> "DeserializeOk", out |-> data[1], read |-> 1]

RECURSIVE decode_bytes(_, _, _)
decode_bytes(data, out, SIZE) ==
    IF Len(data) = 0 THEN [err |-> "DeserializeOk", out |-> out]
    ELSE LET d == decode_byte(data)
         IN  IF d.err # "DeserializeOk" THEN [err |-> d.err, out |-> out]
             ELSE decode_bytes(Drop(data, d.read), vec_push_back(out, SIZE, d.out), SIZE)

\* deserialize<T>: sizeofT bytes of `data` from the 0-based offset idx
deserialize(data, idx, sizeofT) ==
    IF idx + sizeofT > Len(data)
    THEN [err |-> "UnexpectedEOF", idx |-> idx, bytes |-> <<>>]
    ELSE [err |-> "DeserializeOk", idx |-> idx + sizeofT,
          bytes |-> SubSeq(data, idx + 1, idx + sizeofT)]

\* Frame::deserialize_from_decoded: the error and the Frame object afterwards
deserialize_from_decoded(self, decoded) ==
    LET r1 == deserialize(decoded, 0, 1)
        f1 == [self EXCEPT !.sender = r1.bytes[1]]
        r2 == deserialize(decoded, r1.idx, 1)
        f2 == [f1 EXCEPT !.receiver = r2.bytes[1]]
        r3 == deserialize(decoded, r2.idx, 2)
        data_len == from_be_bytes16(r3.bytes)
        f3 == [f2 EXCEPT !.data = push_slice(<<>>, FRAME_DATA_MAX_SIZE,
                                             SubSeq(decoded, r3.idx + 1, r3.idx + data_len))]
        r4 == deserialize(decoded, r3.idx + data_len, 4)
    IN  IF r1.err # "DeserializeOk" THEN [err |-> r1.err, frame |-> self]
        ELSE IF r2.err # "DeserializeOk" THEN [err |-> r2.err, frame |-> f1]
        ELSE IF r3.err # "DeserializeOk" THEN [err |-> r3.err, frame |-> f2]
        ELSE IF data_len > FRAME_DATA_MAX_SIZE THEN [err |-> "DataTooBig", frame |-> f2]
        ELSE IF r3.idx + data_len >= Len(decoded) THEN [err |-> "UnexpectedEOF", frame |-> f2]
        ELSE IF r4.err # "DeserializeOk" THEN [err |-> r4.err, frame |-> f3]
        ELSE IF r4.idx # Len(decoded) THEN [err |-> "ExpectedEOF", frame |-> f3]
        ELSE IF from_be_bytes32(r4.bytes) # Frame_crc32(f3)
             THEN [err |-> "CRC32MissMatch", frame |-> f3]
        ELSE [err |-> "DeserializeOk", frame |-> f3]

deserialize_from_span_end_first(self, encoded) ==
    IF Len(encoded) < FRAME_MIN_SIZE THEN [err |-> "UnexpectedEOF", frame |-> self]
    ELSE IF encoded[Len(encoded)] # END_FRAME_BYTE
    THEN [err |-> "InvalidEndByte", frame |-> self]
    ELSE IF encoded[1] # BEGIN_FRAME_BYTE THEN [err |-> "InvalidStartByte", frame |-> self]
    ELSE LET d == decode_bytes(SubSeq(encoded, 2, Len(encoded) - 1), <<>>, FRAME_MAX_SIZE)
         IN  IF d.err # "DeserializeOk" THEN [err |-> d.err, frame |-> self]
             ELSE deserialize_from_decoded(self, d.out)

\* Frame::deserialize_from(std::span)
deserialize_from_span(self, encoded) ==
    IF Len(encoded) < FRAME_MIN_SIZE THEN [err |-> "UnexpectedEOF", frame |-> self]
    ELSE IF encoded[1] # BEGIN_FRAME_BYTE THEN [err |-> "InvalidStartByte", frame |-> self]
    ELSE IF encoded[Len(encoded)] # END_FRAME_BYTE
    THEN [err |-> "InvalidEndByte", frame |-> self]
    ELSE LET d == decode_bytes(SubSeq(encoded, 2, Len(encoded) - 1), <<>>, FRAME_MAX_SIZE)
         IN  IF d.err # "DeserializeOk" THEN [err |-> d.err, frame |-> self]
             ELSE deserialize_from_decoded(self, d.out)

\* operator==(const Frame&, const Frame&)
frame_eq(lhs, rhs) ==
    /\ lhs.sender = rhs.sender
    /\ lhs.receiver = rhs.receiver
    /\ Len(lhs.data) = Len(rhs.data)
    /\ \A i \in 1..Len(lhs.data) : lhs.data[i] = rhs.data[i]

(***************************************************************************)
(* State.                                                                  *)
(*                                                                         *)
(* Codec harness (proto_cross_test/bindings/frame.cpp): a Frame is         *)
(* serialized into a StaticVec of capacity outCap, and the bytes produced  *)
(* are deserialized into the Frame object dstFrame.                        *)
(***************************************************************************)
VARIABLES srcFrame, out, outCap, serializeResult, dstFrame, deserializeResult, codecPc

codecVars == <<srcFrame, out, outCap, serializeResult, dstFrame, deserializeResult, codecPc>>

\* byte values the model draws frame fields from: the three bytes that need
\* escaping, an escape code, the node's identity and the command separator
FieldBytes == {ESCAPE_BYTE, BEGIN_FRAME_BYTE, END_FRAME_BYTE, 66, 32}

RECURSIVE SeqsUpTo(_, _)
SeqsUpTo(S, n) ==
    IF n = 0 THEN {<<>>}
    ELSE LET shorter == SeqsUpTo(S, n - 1)
         IN  shorter \cup { Append(q, b) : q \in shorter, b \in S }

Frames ==
    [sender : {1, BEGIN_FRAME_BYTE}, receiver : {LOCAL_ID, END_FRAME_BYTE, ESCAPE_BYTE},
     data : SeqsUpTo(FieldBytes, MaxDataLen)]

NoFrame == [sender |-> 0, receiver |-> 0, data |-> <<>>]

\* a Frame object that already holds data from an earlier use
StaleFrame == [sender |-> 7, receiver |-> 9, data |-> <<1, 2, 3>>]

CodecInit ==
    /\ srcFrame \in Frames
    /\ out = <<>>
    /\ outCap \in {SmallOutCap, FRAME_MAX_SIZE * 2}
    /\ serializeResult = "none"
    /\ dstFrame \in {NoFrame, StaleFrame}
    /\ deserializeResult = "none"
    /\ codecPc = "new_frame"

CodecIdle ==
    /\ srcFrame = NoFrame
    /\ out = <<>>
    /\ outCap = 0
    /\ serializeResult = "none"
    /\ dstFrame = NoFrame
    /\ deserializeResult = "none"
    /\ codecPc = "idle"

(***************************************************************************)
(* Container harness: one StaticVec<uint8_t, VecSize> (fields head, inner) *)
(* and one CircularBuffer<RingSize> cb (fields buf, head, tail), driven by *)
(* arbitrary calls.  vecOp and ringOp record the last call: its name, its  *)
(* argument, what it returned (<<>> for std::nullopt, <<v>> for a value)   *)
(* and the container before the call.  accepted, popped and committed are  *)
(* the histories of the bytes push_head accepted, pop_tail returned and    *)
(* either producer call made visible; stored is the queue the ring is to   *)
(* hold: bytes enter at the back when accepted or committed and leave at   *)
(* the front when popped or, on overrun, evicted.                          *)
(***************************************************************************)
VARIABLES vecHead, vecInner, vecOp

vecVars == <<vecHead, vecInner, vecOp>>

VARIABLES cb, accepted, popped, committed, stored, ringOp

ringVars == <<cb, accepted, popped, committed, stored, ringOp>>

\* values handed to the containers
Values == {1, 2}

NoOp == [name |-> "none", val |-> 0, ret |-> <<>>, before |-> <<>>]

\* a CircularBuffer<SIZE> in static storage: indices and bytes zero
CircularBuffer(SIZE) == [buf |-> [i \in 0..(SIZE - 1) |-> 0], head |-> 0, tail |-> 0]

VecInit ==
    /\ vecHead = 0
    /\ vecInner \in [0..(VecSize - 1) -> Values]
    /\ vecOp = NoOp

VecIdle ==
    /\ vecHead = 0
    /\ vecInner = <<>>
    /\ vecOp = NoOp

RingInit ==
    /\ cb = CircularBuffer(RingSize)
    /\ accepted = <<>>
    /\ popped = <<>>
    /\ committed = <<>>
    /\ stored = <<>>
    /\ ringOp = NoOp

RingIdle ==
    /\ cb = CircularBuffer(1)
    /\ accepted = <<>>
    /\ popped = <<>>
    /\ committed = <<>>
    /\ stored = <<>>
    /\ ringOp = NoOp

(***************************************************************************)
(* Receive path.  gRxBuffer is filled by the UART receive interrupt with   *)
(* the bytes of `wire`, nReceived of which have arrived; `sent` lists the  *)
(* pieces the peer put on the line, each with the Frame it carries, if     *)
(* any.  The main loop calls HandlePendingCommands again and again; pc is  *)
(* "main" between two calls and "loop" inside its while loop.  returned    *)
(* lists the Frames GetFrame has returned and handled those handed to      *)
(* ParseCommands.  getLog records the GetFrame call just made, until the   *)
(* next interrupt: the ring before it, its outcome and result, and the     *)
(* place in the byte stream (first byte = 1) of the window it decoded.     *)
(* decodedEnd is the place of the last END of a decoded window, sawPartial *)
(* tells that a call has left an incomplete frame waiting, and arrived     *)
(* that a byte was committed since the current (or last) run of            *)
(* HandlePendingCommands began.  evicted holds the places in the byte     *)
(* stream of the bytes advance_head has dropped from the ring.            *)
(***************************************************************************)
VARIABLES gRxBuffer, sent, wire, nReceived, pc, returned, handled, getLog,
          decodedEnd, sawPartial, arrived, decodeLog, evicted

rxVars == <<gRxBuffer, sent, wire, nReceived, pc, returned, handled, getLog,
            decodedEnd, sawPartial, arrived, decodeLog, evicted>>

(***************************************************************************)
(* The device.  gDeviceState is the global of command_handler.h, htim2 the *)
(* timer the commands drive (ARR is its auto-reload register), and fault   *)
(* tells that the core has taken a fault and runs no further code.         *)
(* cmdLog records the ExecuteCommand call just made: its tokens, the       *)
(* device before it, the response written, the handlers invoked and the    *)
(* calls made on the PWM hardware; for a pass of HandlePendingCommands     *)
(* also whether ParseCommands was called and the SendData calls of the     *)
(* pass.  txLog lists the SendData calls made, each with the bytes it      *)
(* queued for transmission.                                                *)
(***************************************************************************)
VARIABLES gDeviceState, htim2, fault, cmdLog, txLog

(***************************************************************************)
(* The transmit path of usart_tx_handler.cpp.  txBuffer is its ring, busy  *)
(* its flag, and huart2 the UART: the slots whose transmission has been    *)
(* started and not completed (inFlight), the bytes handed over so far      *)
(* (handed), and whether a transmission was requested while another was    *)
(* in progress (refused).  serialized and wrote are the locals of SendData,*)
(* txPc its position; stream collects the bytes of all frames SendData was *)
(* to send, nSends counts them, and putLog records the UART_puts call just *)
(* made.                                                                   *)
(***************************************************************************)
VARIABLES txBuffer, busy, huart2, serialized, wrote, txPc, stream, nSends, putLog

txVars == <<txBuffer, busy, huart2, serialized, wrote, txPc, stream, nSends, putLog>>

devVars == <<gDeviceState, htim2, fault, cmdLog, txLog, txVars>>

\* capacity of the transmit ring of the model (FRAME_MAX_SIZE * 4 in the source)
TxCap == 4

\* number of SendData calls in a run
MaxSends == 2

NoPutLog == [called |-> FALSE, before |-> CircularBuffer(1), v |-> <<>>, ret |-> 0]

\* static CircularBuffer buffer; static bool busy = false; nothing to send
TxIdle ==
    /\ txBuffer = CircularBuffer(TxCap)
    /\ busy = FALSE
    /\ huart2 = [inFlight |-> <<>>, handed |-> <<>>, refused |-> FALSE]
    /\ serialized = <<>>
    /\ wrote = 0
    /\ txPc = "idle"
    /\ stream = <<>>
    /\ nSends = 0
    /\ putLog = NoPutLog

vars == <<codecVars, vecVars, ringVars, rxVars, devVars>>

(***************************************************************************)
(* static_vec.h: StaticVec<T, SIZE> on its fields.  Each operator gives    *)
(* the fields after the call and the value returned.                       *)
(***************************************************************************)
StaticVec_span(head, inner) == [i \in 1..head |-> inner[i - 1]]

\* push_back that drops the value of a full vector without reporting it
StaticVec_push_back_silent(head, inner, SIZE, val) ==
    IF head < SIZE
    THEN [head |-> head + 1, inner |-> [inner EXCEPT ![head] = val], ret |-> <<>>]
    ELSE [head |-> head, inner |-> inner, ret |-> <<>>]

StaticVec_push_back(head, inner, SIZE, val) ==
    IF head < SIZE
    THEN [head |-> head + 1, inner |-> [inner EXCEPT ![head] = val], ret |-> <<>>]
    ELSE [head |-> head, inner |-> inner, ret |-> <<val>>]

StaticVec_pop_back(head, inner) ==
    IF head > 0
    THEN [head |-> head - 1, inner |-> inner, ret |-> <<inner[head - 1]>>]
    ELSE [head |-> head, inner |-> inner, ret |-> <<>>]

StaticVec_clear(head, inner) == [head |-> 0, inner |-> inner, ret |-> <<>>]

VecPushBack ==
    \E val \in Values :
        LET r == StaticVec_push_back(vecHead, vecInner, VecSize, val)
        IN  /\ vecOp' = [name |-> "push_back", val |-> val, ret |-> r.ret,
                         before |-> StaticVec_span(vecHead, vecInner)]
            /\ vecHead' = r.head
            /\ vecInner' = r.inner
            /\ UNCHANGED <<codecVars, ringVars, rxVars, devVars>>

VecPopBack ==
    LET r == StaticVec_pop_back(vecHead, vecInner)
    IN  /\ vecOp' = [name |-> "pop_back", val |-> 0, ret |-> r.ret,
                     before |-> StaticVec_span(vecHead, vecInner)]
        /\ vecHead' = r.head
        /\ vecInner' = r.inner
        /\ UNCHANGED <<codecVars, ringVars, rxVars, devVars>>

VecClear ==
    LET r == StaticVec_clear(vecHead, vecInner)
    IN  /\ vecOp' = [name |-> "clear", val |-> 0, ret |-> r.ret,
                     before |-> StaticVec_span(vecHead, vecInner)]
        /\ vecHead' = r.head
        /\ vecInner' = r.inner
        /\ UNCHANGED <<codecVars, ringVars, rxVars, devVars>>

(***************************************************************************)
(* circular_buffer.h: CircularBuffer<SIZE> on a record of its fields.      *)
(***************************************************************************)
getCapacity(rb) == Cardinality(DOMAIN rb.buf)

\* push_head without the test that keeps one slot free
push_head_unchecked(rb, val) ==
    [rb |-> [rb EXCEPT !.buf[rb.head] = val, !.head = (rb.head + 1) % getCapacity(rb)],
     ret |-> <<>>]

push_head(rb, val) ==
    LET incr_head == (rb.head + 1) % getCapacity(rb)
    IN  IF incr_head # rb.tail
        THEN [rb |-> [rb EXCEPT !.buf[rb.head] = val, !.head = incr_head], ret |-> <<>>]
        ELSE [rb |-> rb, ret |-> <<val>>]

\* pop_tail that returns the byte after the one it removes
pop_tail_skewed(rb) ==
    IF rb.tail # rb.head
    THEN [rb |-> [rb EXCEPT !.tail = (rb.tail + 1) % getCapacity(rb)],
          ret |-> <<rb.buf[(rb.tail + 1) % getCapacity(rb)]>>]
    ELSE [rb |-> rb, ret |-> <<>>]

pop_tail(rb) ==
    IF rb.tail # rb.head
    THEN [rb |-> [rb EXCEPT !.tail = (rb.tail + 1) % getCapacity(rb)],
          ret |-> <<rb.buf[rb.tail]>>]
    ELSE [rb |-> rb, ret |-> <<>>]

\* advance_head that drops the newest byte of a full ring instead of the oldest
advance_head_drop_newest(rb) ==
    LET head == (rb.head + 1) % getCapacity(rb)
    IN  IF head = rb.tail THEN rb ELSE [rb EXCEPT !.head = head]

\* advance_head that never moves tail
advance_head_keep_tail(rb) == [rb EXCEPT !.head = (rb.head + 1) % getCapacity(rb)]

advance_head(rb) ==
    LET head == (rb.head + 1) % getCapacity(rb)
    IN  IF head = rb.tail
        THEN [rb EXCEPT !.head = head, !.tail = (rb.tail + 1) % getCapacity(rb)]
        ELSE [rb EXCEPT !.head = head]

getSize(rb) ==
    IF rb.head > rb.tail THEN rb.head - rb.tail
    ELSE getCapacity(rb) - rb.tail + rb.head

\* the receive interrupt: the UART has stored `byte` in the slot armed by
\* ReceiveBytes (buf + head), and HAL_UART_RxCpltCallback commits it
HAL_UART_RxCpltCallback(rb, byte) == advance_head([rb EXCEPT !.buf[rb.head] = byte])

\* the bytes between tail and head, oldest first
Contents(rb) ==
    [i \in 1..((rb.head - rb.tail) % getCapacity(rb)) |->
        rb.buf[(rb.tail + i - 1) % getCapacity(rb)]]

RingPushHead ==
    \E val \in Values :
        LET r == push_head(cb, val)
        IN  /\ Len(committed) < MaxOps
            /\ cb' = r.rb
            /\ ringOp' = [name |-> "push_head", val |-> val, ret |-> r.ret, before |-> cb]
            /\ accepted' = IF r.ret = <<>> THEN Append(accepted, val) ELSE accepted
            /\ committed' = IF r.ret = <<>> THEN Append(committed, val) ELSE committed
            /\ stored' = IF r.ret = <<>> THEN Append(stored, val) ELSE stored
            /\ UNCHANGED <<popped, codecVars, vecVars, rxVars, devVars>>

RingPopTail ==
    LET r == pop_tail(cb)
    IN  /\ cb' = r.rb
        /\ ringOp' = [name |-> "pop_tail", val |-> 0, ret |-> r.ret, before |-> cb]
        /\ popped' = popped \o r.ret
        /\ stored' = IF r.ret # <<>> THEN Tail(stored) ELSE stored
        /\ UNCHANGED <<accepted, committed, codecVars, vecVars, rxVars, devVars>>

RingAdvanceHead ==
    \E byte \in Values :
        /\ Len(committed) < MaxOps
        /\ cb' = HAL_UART_RxCpltCallback(cb, byte)
        /\ ringOp' = [name |-> "advance_head", val |-> byte, ret |-> <<>>, before |-> cb]
        /\ committed' = Append(committed, byte)
        /\ stored' = IF Len(stored) = getCapacity(cb) - 1
                     THEN Append(Tail(stored), byte)
                     ELSE Append(stored, byte)
        /\ UNCHANGED <<accepted, popped, codecVars, vecVars, rxVars, devVars>>

RingGetSize ==
    /\ ringOp.name # "getSize"
    /\ ringOp' = [name |-> "getSize", val |-> 0, ret |-> <<getSize(cb)>>, before |-> cb]
    /\ UNCHANGED <<cb, accepted, popped, committed, stored, codecVars, vecVars, rxVars, devVars>>

\* no call of Frame::deserialize_from(ICircularBuffer&) recorded
NoDecodeLog == [called |-> FALSE, err |-> "none", frame |-> <<>>, reads |-> {}, visited |-> {}]

NoGetLog ==
    [outcome |-> "none", before |-> CircularBuffer(1), ret |-> <<>>, err |-> "none",
     masked |-> {}, tail |-> 0, begin |-> 0, end |-> 0, prevEnd |-> 0]

\* DeviceState as its member initialisers and static zero-initialisation leave it
DeviceState == [dutyCycles |-> << 0 >>, userDutyCycles |-> <<>>, isPwmGenerated |-> FALSE]

NoCmdLog ==
    [called |-> FALSE, args |-> <<>>, ret |-> <<>>, invoked |-> <<>>, calls |-> <<>>,
     before |-> DeviceState, beforeARR |-> 0, parsed |-> FALSE, sends |-> <<>>]

DevIdle ==
    /\ gDeviceState = DeviceState
    /\ htim2 = [ARR |-> 0]
    /\ fault = FALSE
    /\ cmdLog = NoCmdLog
    /\ txLog = <<>>
    /\ TxIdle

RxIdle ==
    /\ gRxBuffer = CircularBuffer(1)
    /\ sent = <<>>
    /\ wire = <<>>
    /\ nReceived = 0
    /\ pc = "idle"
    /\ returned = <<>>
    /\ handled = <<>>
    /\ getLog = NoGetLog
    /\ decodedEnd = 0
    /\ sawPartial = FALSE
    /\ arrived = FALSE
    /\ decodeLog = NoDecodeLog
    /\ evicted = {}

(***************************************************************************)
(* Specifications of the container harness.                                *)
(***************************************************************************)
InitVec == VecInit /\ CodecIdle /\ RingIdle /\ RxIdle /\ DevIdle

NextVec == VecPushBack \/ VecPopBack \/ VecClear

SpecVec == InitVec /\ [][NextVec]_vars

InitRing == RingInit /\ CodecIdle /\ VecIdle /\ RxIdle /\ DevIdle

\* the ring driven through push_head and pop_tail alone
NextFifo == RingPushHead \/ RingPopTail

SpecFifo == InitRing /\ [][NextFifo]_vars

\* the ring driven through every mutator, producer commits included
NextRing == RingPushHead \/ RingPopTail \/ RingAdvanceHead \/ RingGetSize

SpecRing == InitRing /\ [][NextRing]_vars

(***************************************************************************)
(* The codec harness: serialize_frame, then deserialize_frame on the bytes *)
(* it produced.                                                            *)
(***************************************************************************)
Serialize ==
    LET r == serialize_into(srcFrame, out, outCap)
    IN  /\ codecPc = "new_frame"
        /\ out' = r.out
        /\ serializeResult' = r.err
        /\ codecPc' = "serialized"
        /\ UNCHANGED <<srcFrame, outCap, dstFrame, deserializeResult,
                       vecVars, ringVars, rxVars, devVars>>

Deserialize ==
    LET d == deserialize_from_span(dstFrame, out)
    IN  /\ codecPc = "serialized"
        /\ dstFrame' = d.frame
        /\ deserializeResult' = d.err
        /\ codecPc' = "deserialized"
        /\ UNCHANGED <<srcFrame, out, outCap, serializeResult, vecVars, ringVars, rxVars, devVars>>

InitCodec == CodecInit /\ VecIdle /\ RingIdle /\ RxIdle /\ DevIdle

NextCodec == Serialize \/ Deserialize

SpecCodec == InitCodec /\ [][NextCodec]_vars

(***************************************************************************)
(* The size harness: serialize_frame on frames of every payload length up  *)
(* to MaxDataLen and on frames whose payload is as long as a frame allows, *)
(* or half that, with none, some or all of its bytes in the escape table,  *)
(* into the buffers the callers provide.                                   *)
(***************************************************************************)
PlainByte == 65

\* n bytes of which the first k are in the escape table
EscapedRun(n, k) == [i \in 1..n |-> IF i <= k THEN ESCAPE_BYTE ELSE PlainByte]

LongFrames ==
    { [sender |-> 1, receiver |-> LOCAL_ID, data |-> EscapedRun(FRAME_DATA_MAX_SIZE, k)] :
          k \in { 0, 3, FRAME_DATA_MAX_SIZE } }
    \cup { [sender |-> 1, receiver |-> LOCAL_ID,
            data |-> EscapedRun(FRAME_DATA_MAX_SIZE \div 2, FRAME_DATA_MAX_SIZE \div 2)] }

InitSize ==
    /\ srcFrame \in Frames \cup LongFrames
    /\ out = <<>>
    /\ outCap \in {FRAME_MAX_SIZE, FRAME_MAX_SIZE * 2}
    /\ serializeResult = "none"
    /\ dstFrame = NoFrame
    /\ deserializeResult = "none"
    /\ codecPc = "new_frame"
    /\ VecIdle /\ RingIdle /\ RxIdle /\ DevIdle

NextSize == Serialize

SpecSize == InitSize /\ [][NextSize]_vars

(***************************************************************************)
(* Commands.  Text is a sequence of character codes; each string literal   *)
(* of the source is written out as the codes of its characters.            *)
(***************************************************************************)
\* "UNKNOWN_COMMAND"
kUnknownCommand == << 85, 78, 75, 78, 79, 87, 78, 95, 67, 79, 77, 77, 65, 78, 68 >>

\* "INVALID_ARGUMENT"
kInvalidArgument == << 73, 78, 86, 65, 76, 73, 68, 95, 65, 82, 71, 85, 77, 69, 78, 84 >>

\* "PWM_ON"
kPwmOn == << 80, 87, 77, 95, 79, 78 >>

\* "PWM_OFF"
kPwmOff == << 80, 87, 77, 95, 79, 70, 70 >>

\* "FREQ_CHANGED"
kFreqChanged == << 70, 82, 69, 81, 95, 67, 72, 65, 78, 71, 69, 68 >>

\* "DUTY_CYCLES_CHANGED"
kDutyCyclesChanged == << 68, 85, 84, 89, 95, 67, 89, 67, 76, 69, 83, 95, 67, 72, 65, 78, 71, 69, 68 >>

\* "INVALID_FREQUENCY"
kInvalidFrequency == << 73, 78, 86, 65, 76, 73, 68, 95, 70, 82, 69, 81, 85, 69, 78, 67, 89 >>

\* "INVALID_DUTY_CYCLE"
kInvalidDutyCycle == << 73, 78, 86, 65, 76, 73, 68, 95, 68, 85, 84, 89, 95, 67, 89, 67, 76, 69 >>

\* "STATUS_RESP"
kStatusResp == << 83, 84, 65, 84, 85, 83, 95, 82, 69, 83, 80 >>

\* the command table: name, handler, least and greatest number of arguments
kCommandHandlers ==
    << [commandName |-> << 79, 78 >>, callback |-> "CmdPwmOn", minArgs |-> 0, maxArgs |-> 0],
       [commandName |-> << 79, 70, 70 >>, callback |-> "CmdPwmOff", minArgs |-> 0, maxArgs |-> 0],
       [commandName |-> << 83, 69, 84, 95, 70, 82, 69, 81 >>,
        callback |-> "CmdSetFreq", minArgs |-> 1, maxArgs |-> 1],
       [commandName |-> << 83, 69, 84, 95, 68, 85, 84, 89, 95, 67, 89, 67, 76, 69, 83 >>,
        callback |-> "CmdSetDutyCycles", minArgs |-> 1, maxArgs |-> 312],
       [commandName |-> << 83, 84, 65, 84, 85, 83 >>,
        callback |-> "CmdStatus", minArgs |-> 0, maxArgs |-> 0] >>

\* the space character, the delimiter of ParseCommands and of the responses
SPACE == 32

\* the character '0'
ZERO_CHAR == 48

\* Split: the chunks of s between delimiters, empty chunks included
RECURSIVE Split(_, _)
Split(s, delim) ==
    LET hits == { i \in 1..Len(s) : s[i] = delim }
        found == CHOOSE i \in hits : \A j \in hits : i <= j
    IN  IF hits = {} THEN << s >>
        ELSE << SubSeq(s, 1, found - 1) >> \o Split(SubSeq(s, found + 1, Len(s)), delim)

\* ParseCommands: the arguments found; an empty list stands for std::nullopt
ParseCommands(data) == SelectSeq(Split(data, SPACE), LAMBDA arg : Len(arg) > 0)

\* text without its leading '0' characters
RECURSIVE StripZeros(_)
StripZeros(text) ==
    IF text # <<>> /\ Head(text) = ZERO_CHAR THEN StripZeros(Tail(text)) ELSE text

\* the number written by a sequence of digit characters
RECURSIVE Horner(_)
Horner(digits) ==
    IF digits = <<>> THEN 0
    ELSE Horner(SubSeq(digits, 1, Len(digits) - 1)) * 10 + (digits[Len(digits)] - ZERO_CHAR)

\* lexicographic a <= b for digit sequences of equal length
RECURSIVE DigitsLeq(_, _)
DigitsLeq(a, b) ==
    IF a = <<>> THEN TRUE
    ELSE IF Head(a) # Head(b) THEN Head(a) < Head(b)
    ELSE DigitsLeq(Tail(a), Tail(b))

\* "4294967295", the greatest std::uint32_t
UINT32_MAX_TEXT == << 52, 50, 57, 52, 57, 54, 55, 50, 57, 53 >>

\* std::from_chars into a std::uint32_t followed by the test that the whole
\* of arg was consumed: ok, and the value when ok
from_chars(arg) ==
    LET allDigits == arg # <<>> /\ \A i \in 1..Len(arg) : arg[i] \in ZERO_CHAR..(ZERO_CHAR + 9)
        sig == StripZeros(arg)
        fits == \/ Len(sig) < Len(UINT32_MAX_TEXT)
                \/ Len(sig) = Len(UINT32_MAX_TEXT) /\ DigitsLeq(sig, UINT32_MAX_TEXT)
    IN  IF allDigits /\ fits THEN [ok |-> TRUE, value |-> Horner(sig)]
        ELSE [ok |-> FALSE, value |-> 0]

\* the characters "%d" prints for a number that is not negative
RECURSIVE Decimal(_)
Decimal(n) ==
    IF n < 10 THEN << ZERO_CHAR + n >> ELSE Decimal(n \div 10) \o << ZERO_CHAR + (n % 10) >>

\* Printf(ret, "%s", text): text appended to the response of run m
Printf(m, text) == [m EXCEPT !.ret = @ \o text]

\* a run of ExecuteCommand: the device state and the timer register it works
\* on, the response written so far, the handlers invoked, the calls made on the
\* PWM hardware, and whether the core has faulted
Run(dev, ARR) ==
    [dev |-> dev, ARR |-> ARR, ret |-> <<>>, invoked |-> <<>>, calls |-> <<>>,
     fault |-> FALSE]

\* TIMER_FREQ: the timer clock, HAL_RCC_GetPCLK1Freq() * 2
TIMER_FREQ == TimerClock

StartPWM(m) == [m EXCEPT !.dev.isPwmGenerated = TRUE, !.calls = Append(@, "start")]

StopPWM(m) == [m EXCEPT !.dev.isPwmGenerated = FALSE, !.calls = Append(@, "stop")]

SetArr(m, arr) == [m EXCEPT !.ARR = arr - 1, !.calls = Append(@, "setPeriod")]

CmdPwmOn_restart(m, args) == Printf(StartPWM(m), kPwmOn)

CmdPwmOn(m, args) == Printf(IF ~m.dev.isPwmGenerated THEN StartPWM(m) ELSE m, kPwmOn)

CmdPwmOff(m, args) == Printf(IF m.dev.isPwmGenerated THEN StopPWM(m) ELSE m, kPwmOff)

\* dutyCycles after the loop of CmdSetFreq: one entry per userDutyCycles entry
RescaledDutyCycles(dev, arr) ==
    [i \in 1..Len(dev.dutyCycles) |->
        IF i <= Len(dev.userDutyCycles) THEN (dev.userDutyCycles[i] * arr) \div 100
        ELSE dev.dutyCycles[i]]

\* CmdSetFreq.  TIMER_FREQ / value is evaluated before value is compared with 0;
\* for value = 0 the division is undefined: divTrap tells whether the core
\* traps on it or the division yields 0.
CmdSetFreq(m, args, divTrap) ==
    LET parsed == from_chars(args[2])
        value == parsed.value
        arr == IF value = 0 THEN 0 ELSE TIMER_FREQ \div value
        stopped == IF m.dev.isPwmGenerated THEN StopPWM(m) ELSE m
        period == SetArr(stopped, arr)
        scaled == [period EXCEPT !.dev.dutyCycles = RescaledDutyCycles(period.dev, arr)]
        restored == IF m.dev.isPwmGenerated THEN StartPWM(scaled) ELSE scaled
    IN  IF ~parsed.ok THEN Printf(m, kInvalidArgument)
        ELSE IF value = 0 /\ divTrap THEN [m EXCEPT !.fault = TRUE]
        ELSE IF arr = 0 \/ value = 0 THEN Printf(m, kInvalidFrequency)
        ELSE Printf(restored, kFreqChanged \o << SPACE >> \o Decimal(value))

\* words[lo..hi], each after a space
RECURSIVE SpaceJoinedRange(_, _, _)
SpaceJoinedRange(words, lo, hi) ==
    IF lo > hi THEN <<>>
    ELSE IF lo = hi THEN << SPACE >> \o words[lo]
    ELSE SpaceJoinedRange(words, lo, (lo + hi) \div 2)
         \o SpaceJoinedRange(words, ((lo + hi) \div 2) + 1, hi)

\* the arguments of a response, each after a space
SpaceJoined(words) == SpaceJoinedRange(words, 1, Len(words))

\* CmdSetDutyCycles that stores the lists before it looks at the values
CmdSetDutyCycles_store_first(m, args) ==
    LET parsed == [i \in 1..(Len(args) - 1) |-> from_chars(args[i + 1])]
        arr == m.ARR + 1
        kept == [m EXCEPT !.dev.dutyCycles = [i \in 1..Len(parsed) |->
                                                   (parsed[i].value * arr) \div 100],
                            !.dev.userDutyCycles = [i \in 1..Len(parsed) |->
                                                       parsed[i].value % TwoTo8]]
    IN  IF \E i \in 1..Len(parsed) : ~parsed[i].ok THEN Printf(m, kInvalidArgument)
        ELSE IF \E i \in 1..Len(parsed) : parsed[i].value > 100
        THEN Printf(kept, kInvalidDutyCycle)
        ELSE Printf(kept, kDutyCyclesChanged \o SpaceJoined(Tail(args)))

CmdSetDutyCycles(m, args) ==
    LET parsed == [i \in 1..(Len(args) - 1) |-> from_chars(args[i + 1])]
        arr == m.ARR + 1
        dutyCycles == [i \in 1..Len(parsed) |-> (parsed[i].value * arr) \div 100]
        userDutyCycles == [i \in 1..Len(parsed) |-> parsed[i].value % TwoTo8]
        stopped == IF m.dev.isPwmGenerated THEN StopPWM(m) ELSE m
        moved == [stopped EXCEPT !.dev.dutyCycles = dutyCycles]
        started == IF m.dev.isPwmGenerated THEN StartPWM(moved) ELSE moved
        done == [started EXCEPT !.dev.userDutyCycles = userDutyCycles]
    IN  IF \E i \in 1..Len(parsed) : ~parsed[i].ok THEN Printf(m, kInvalidArgument)
        ELSE IF \E i \in 1..Len(parsed) : parsed[i].value > 100
        THEN Printf(m, kInvalidDutyCycle)
        ELSE Printf(done, kDutyCyclesChanged \o SpaceJoined(Tail(args)))

\* the " %d" items CmdStatus prints for the entries of dutyCycles
StatusDutyCycles(dutyCycles, arr) ==
    SpaceJoined([i \in 1..Len(dutyCycles) |-> Decimal((dutyCycles[i] * 100) \div arr)])

CmdStatus(m, args) ==
    LET arr == m.ARR + 1
    IN  Printf(m, kStatusResp
                  \o << SPACE, ZERO_CHAR + (IF m.dev.isPwmGenerated THEN 1 ELSE 0) >>
                  \o << SPACE >> \o Decimal(TIMER_FREQ \div arr)
                  \o StatusDutyCycles(m.dev.dutyCycles, arr))

\* the index in kCommandHandlers of the first entry named `name`, else 0
FindHandler(name) ==
    LET hits == { k \in 1..Len(kCommandHandlers) : kCommandHandlers[k].commandName = name }
    IN  IF hits = {} THEN 0 ELSE CHOOSE k \in hits : \A j \in hits : k <= j

\* found->callback(ret, args)
Callback(handler, m, args, divTrap) ==
    LET called == [m EXCEPT !.invoked = Append(@, handler.callback)]
    IN  CASE handler.callback = "CmdPwmOn" -> CmdPwmOn(called, args)
          [] handler.callback = "CmdPwmOff" -> CmdPwmOff(called, args)
          [] handler.callback = "CmdSetFreq" -> CmdSetFreq(called, args, divTrap)
          [] handler.callback = "CmdSetDutyCycles" -> CmdSetDutyCycles(called, args)
          [] handler.callback = "CmdStatus" -> CmdStatus(called, args)

\* ExecuteCommand that tests the number of tokens, not of arguments
ExecuteCommand_count_name(m, args, divTrap) ==
    LET found == FindHandler(args[1])
        handler == kCommandHandlers[found]
    IN  IF Len(args) = 0 THEN Printf(m, kUnknownCommand)
        ELSE IF found = 0 THEN Printf(m, kUnknownCommand)
        ELSE IF ~(handler.minArgs <= Len(args) /\ handler.maxArgs >= Len(args))
        THEN Printf(m, kInvalidArgument)
        ELSE Callback(handler, m, args, divTrap)

\* ExecuteCommand that takes a name that begins like a table entry for it
ExecuteCommand_prefix_match(m, args, divTrap) ==
    LET hits == { k \in 1..Len(kCommandHandlers) :
                     IsPrefix(kCommandHandlers[k].commandName, args[1]) }
        found == IF hits = {} THEN 0 ELSE CHOOSE k \in hits : \A j \in hits : k <= j
        handler == kCommandHandlers[found]
    IN  IF Len(args) = 0 THEN Printf(m, kUnknownCommand)
        ELSE IF found = 0 THEN Printf(m, kUnknownCommand)
        ELSE IF ~(handler.minArgs <= Len(args) - 1 /\ handler.maxArgs >= Len(args) - 1)
        THEN Printf(m, kInvalidArgument)
        ELSE Callback(handler, m, args, divTrap)

\* ExecuteCommand on the run m
ExecuteCommand(m, args, divTrap) ==
    LET found == FindHandler(args[1])
        handler == kCommandHandlers[found]
    IN  IF Len(args) = 0 THEN Printf(m, kUnknownCommand)
        ELSE IF found = 0 THEN Printf(m, kUnknownCommand)
        ELSE IF ~(handler.minArgs <= Len(args) - 1 /\ handler.maxArgs >= Len(args) - 1)
        THEN Printf(m, kInvalidArgument)
        ELSE Callback(handler, m, args, divTrap)

(***************************************************************************)
(* The command harness: ExecuteCommand called on token lists, one call     *)
(* after the other, on the device as the last call left it; between two    *)
(* calls the caller drops the response buffer.                             *)
(***************************************************************************)
\* first tokens: the five commands, "on" and "ONE"
NameTokens ==
    { kCommandHandlers[k].commandName : k \in 1..Len(kCommandHandlers) }
    \cup { << 111, 110 >>, << 79, 78, 69 >> }

\* argument tokens: "0", "7", "101", "999" and "5x"
ArgTokens == { << 48 >>, << 55 >>, << 49, 48, 49 >>, << 57, 57, 57 >>, << 53, 120 >> }

\* SET_DUTY_CYCLES followed by n arguments "0"
LongDutyCycles(n) == << kCommandHandlers[4].commandName >> \o [i \in 1..n |-> << ZERO_CHAR >>]

\* the token lists handed to ExecuteCommand: none, a name with up to MaxArgs
\* arguments, and SET_DUTY_CYCLES with the most arguments it takes and one more
TokenLists ==
    { <<>> }
    \cup { << name >> \o args : name \in NameTokens, args \in SeqsUpTo(ArgTokens, MaxArgs) }
    \cup { LongDutyCycles(kCommandHandlers[4].maxArgs),
           LongDutyCycles(kCommandHandlers[4].maxArgs + 1) }

\* the device after start-up, the timer set to a period of one second
CmdInit ==
    /\ gDeviceState = DeviceState
    /\ htim2 = [ARR |-> TIMER_FREQ - 1]
    /\ fault = FALSE
    /\ cmdLog = NoCmdLog
    /\ txLog = <<>>
    /\ TxIdle

\* one call of ExecuteCommand
Execute ==
    /\ ~fault
    /\ ~cmdLog.called
    /\ \E args \in TokenLists : \E divTrap \in BOOLEAN :
           \E r \in { ExecuteCommand(Run(gDeviceState, htim2.ARR), args, divTrap) } :
               /\ gDeviceState' = r.dev
               /\ htim2' = [ARR |-> r.ARR]
               /\ fault' = r.fault
               /\ cmdLog' = [called |-> TRUE, args |-> args, ret |-> r.ret,
                             invoked |-> r.invoked, calls |-> r.calls,
                             before |-> gDeviceState, beforeARR |-> htim2.ARR,
                             parsed |-> FALSE, sends |-> <<>>]
               /\ UNCHANGED <<txLog, txVars, codecVars, vecVars, ringVars, rxVars>>

\* the caller is done with the response buffer of the call
Respond ==
    /\ cmdLog.called
    /\ cmdLog' = NoCmdLog
    /\ UNCHANGED <<gDeviceState, htim2, fault, txLog, txVars,
                   codecVars, vecVars, ringVars, rxVars>>

InitCmd == CmdInit /\ CodecIdle /\ VecIdle /\ RingIdle /\ RxIdle

NextCmd == Execute \/ Respond

SpecCmd == InitCmd /\ [][NextCmd]_vars

(***************************************************************************)
(* The receive path: Frame::deserialize_from(ICircularBuffer&), GetFrame,  *)
(* the UART receive interrupt and HandlePendingCommands.                   *)
(***************************************************************************)
\* the decoding loop of Frame::deserialize_from(ICircularBuffer&); `last` is
\* the local the source calls head, the index of the newest element.  Besides
\* the result it gives the values idx took (visited) and the slots of buf
\* that were read: each pass fills the two-byte window before it tests for END
RECURSIVE ring_decode(_, _, _, _)
ring_decode(rb, idx, last, decoded) ==
    IF idx = last
    THEN [err |-> "DeserializeOk", idx |-> idx, decoded |-> decoded,
          reads |-> {}, visited |-> {idx}]
    ELSE LET pair == { idx, (idx + 1) % getCapacity(rb) }
             window == << rb.buf[idx], rb.buf[(idx + 1) % getCapacity(rb)] >>
             d == decode_byte(window)
             here == [err |-> "DeserializeOk", idx |-> idx, decoded |-> decoded,
                      reads |-> pair, visited |-> {idx}]
         IN  IF rb.buf[idx] = END_FRAME_BYTE THEN here
             ELSE IF d.err # "DeserializeOk" THEN [here EXCEPT !.err = d.err]
             ELSE IF vec_push_rejected(decoded, FRAME_MAX_SIZE - 2)
             THEN [here EXCEPT !.err = "DataTooBig"]
             ELSE LET rest == ring_decode(rb, (idx + d.read) % getCapacity(rb), last,
                                          vec_push_back(decoded, FRAME_MAX_SIZE - 2, d.out))
                  IN  [rest EXCEPT !.reads = @ \cup pair, !.visited = @ \cup {idx}]

\* the decoder started on the BEGIN itself
deserialize_from_ring_from_tail(self, rb) ==
    LET cap == getCapacity(rb)
        last == (IF rb.head # 0 THEN rb.head ELSE cap) - 1
        scan == ring_decode(rb, rb.tail, last, <<>>)
        done == IF rb.buf[scan.idx] = END_FRAME_BYTE
                THEN deserialize_from_decoded(self, scan.decoded)
                ELSE [err |-> "UnexpectedEOF", frame |-> self]
    IN  IF rb.buf[rb.tail] # BEGIN_FRAME_BYTE
        THEN [err |-> "InvalidStartByte", frame |-> self,
              reads |-> {rb.tail}, visited |-> {}]
        ELSE IF getSize(rb) < FRAME_MIN_SIZE
        THEN [err |-> "UnexpectedEOF", frame |-> self,
              reads |-> {rb.tail}, visited |-> {}]
        ELSE IF scan.err # "DeserializeOk"
        THEN [err |-> scan.err, frame |-> self,
              reads |-> {rb.tail} \cup scan.reads, visited |-> scan.visited]
        ELSE [err |-> done.err, frame |-> done.frame,
              reads |-> {rb.tail, scan.idx} \cup scan.reads, visited |-> scan.visited]

\* Frame::deserialize_from(ICircularBuffer&): the error and the Frame
\* afterwards, with the slots read and the values of idx
deserialize_from_ring(self, rb) ==
    LET cap == getCapacity(rb)
        last == (IF rb.head # 0 THEN rb.head ELSE cap) - 1
        scan == ring_decode(rb, (rb.tail + 1) % cap, last, <<>>)
        done == IF rb.buf[scan.idx] = END_FRAME_BYTE
                THEN deserialize_from_decoded(self, scan.decoded)
                ELSE [err |-> "UnexpectedEOF", frame |-> self]
    IN  IF rb.buf[rb.tail] # BEGIN_FRAME_BYTE
        THEN [err |-> "InvalidStartByte", frame |-> self,
              reads |-> {rb.tail}, visited |-> {}]
        ELSE IF getSize(rb) < FRAME_MIN_SIZE
        THEN [err |-> "UnexpectedEOF", frame |-> self,
              reads |-> {rb.tail}, visited |-> {}]
        ELSE IF scan.err # "DeserializeOk"
        THEN [err |-> scan.err, frame |-> self,
              reads |-> {rb.tail} \cup scan.reads, visited |-> scan.visited]
        ELSE [err |-> done.err, frame |-> done.frame,
              reads |-> {rb.tail, scan.idx} \cup scan.reads, visited |-> scan.visited]

\* GetFrame, first loop entered at least once (a do-while in place of the while)
RECURSIVE skip_to_begin_dowhile(_, _)
skip_to_begin_dowhile(rb, tail) ==
    LET next == (tail + 1) % getCapacity(rb)
    IN  IF tail = rb.head THEN tail
        ELSE IF rb.buf[next] # BEGIN_FRAME_BYTE /\ next # rb.head
        THEN skip_to_begin_dowhile(rb, next)
        ELSE next

\* GetFrame, first loop: tail moves to the first BEGIN, or to head
RECURSIVE skip_to_begin(_, _)
skip_to_begin(rb, tail) ==
    IF rb.buf[tail] # BEGIN_FRAME_BYTE /\ tail # rb.head
    THEN skip_to_begin(rb, (tail + 1) % getCapacity(rb))
    ELSE tail

\* GetFrame, second loop: idx stops at head, at an END, or at another BEGIN
RECURSIVE scan_for_end(_, _)
scan_for_end(rb, idx) ==
    IF idx # rb.head /\ rb.buf[idx] # END_FRAME_BYTE
    THEN IF rb.buf[idx] = BEGIN_FRAME_BYTE
         THEN [begin |-> TRUE, idx |-> idx]
         ELSE scan_for_end(rb, (idx + 1) % getCapacity(rb))
    ELSE [begin |-> FALSE, idx |-> idx]

\* GetFrame that leaves tail on the BEGIN of a window that failed to decode
GetFrame_retry_on_error(rb) ==
    LET cap == getCapacity(rb)
        atBegin == [rb EXCEPT !.tail = skip_to_begin(rb, rb.tail)]
        scan == scan_for_end(atBegin, (atBegin.tail + 1) % cap)
        d == deserialize_from_ring(NoFrame, atBegin)
    IN  IF atBegin.tail = rb.head
        THEN [rb |-> atBegin, ret |-> <<>>, outcome |-> "empty", err |-> "none",
              masked |-> {"skip"},
              begin |-> atBegin.tail, end |-> atBegin.tail]
        ELSE IF scan.begin
        THEN [rb |-> [rb EXCEPT !.tail = scan.idx], ret |-> <<>>, outcome |-> "resync",
              err |-> "none", masked |-> {"skip", "scan", "tail"},
              begin |-> atBegin.tail, end |-> scan.idx]
        ELSE IF rb.head = scan.idx \/ rb.buf[scan.idx] # END_FRAME_BYTE
        THEN [rb |-> atBegin, ret |-> <<>>, outcome |-> "incomplete", err |-> "none",
              masked |-> {"skip", "scan"},
              begin |-> atBegin.tail, end |-> scan.idx]
        ELSE [rb |-> IF d.err = "DeserializeOk"
                     THEN [rb EXCEPT !.tail = (scan.idx + 1) % cap] ELSE atBegin,
              ret |-> IF d.err = "DeserializeOk" THEN << d.frame >> ELSE <<>>,
              outcome |-> "decoded", err |-> d.err,
              masked |-> {"skip", "scan", "decode", "tail"},
              begin |-> atBegin.tail, end |-> scan.idx]

GetFrame_peek(rb) ==
    LET cap == getCapacity(rb)
        atBegin == [rb EXCEPT !.tail = skip_to_begin(rb, rb.tail)]
        scan == scan_for_end(atBegin, (atBegin.tail + 1) % cap)
        d == deserialize_from_ring(NoFrame, atBegin)
    IN  IF atBegin.tail = rb.head
        THEN [rb |-> atBegin, ret |-> <<>>, outcome |-> "empty", err |-> "none",
              masked |-> {"skip"},
              begin |-> atBegin.tail, end |-> atBegin.tail]
        ELSE IF scan.begin
        THEN [rb |-> [rb EXCEPT !.tail = scan.idx], ret |-> <<>>, outcome |-> "resync",
              err |-> "none", masked |-> {"skip", "scan", "tail"},
              begin |-> atBegin.tail, end |-> scan.idx]
        ELSE IF rb.head = scan.idx \/ rb.buf[scan.idx] # END_FRAME_BYTE
        THEN [rb |-> atBegin, ret |-> <<>>, outcome |-> "incomplete", err |-> "none",
              masked |-> {"skip", "scan"},
              begin |-> atBegin.tail, end |-> scan.idx]
        ELSE [rb |-> IF d.err = "DeserializeOk"
                     THEN atBegin ELSE [rb EXCEPT !.tail = (scan.idx + 1) % cap],
              ret |-> IF d.err = "DeserializeOk" THEN << d.frame >> ELSE <<>>,
              outcome |-> "decoded", err |-> d.err,
              masked |-> {"skip", "scan", "decode", "tail"},
              begin |-> atBegin.tail, end |-> scan.idx]

GetFrame_skip_begin(rb) ==
    LET cap == getCapacity(rb)
        atBegin == [rb EXCEPT !.tail = skip_to_begin(rb, rb.tail)]
        scan == scan_for_end(atBegin, (atBegin.tail + 1) % cap)
        d == deserialize_from_ring(NoFrame, atBegin)
    IN  IF atBegin.tail = rb.head
        THEN [rb |-> atBegin, ret |-> <<>>, outcome |-> "empty", err |-> "none",
              masked |-> {"skip"},
              begin |-> atBegin.tail, end |-> atBegin.tail]
        ELSE IF scan.begin
        THEN [rb |-> [rb EXCEPT !.tail = (scan.idx + 1) % cap], ret |-> <<>>, outcome |-> "resync",
              err |-> "none", masked |-> {"skip", "scan", "tail"},
              begin |-> atBegin.tail, end |-> scan.idx]
        ELSE IF rb.head = scan.idx \/ rb.buf[scan.idx] # END_FRAME_BYTE
        THEN [rb |-> atBegin, ret |-> <<>>, outcome |-> "incomplete", err |-> "none",
              masked |-> {"skip", "scan"},
              begin |-> atBegin.tail, end |-> scan.idx]
        ELSE [rb |-> [rb EXCEPT !.tail = (scan.idx + 1) % cap],
              ret |-> IF d.err = "DeserializeOk" THEN << d.frame >> ELSE <<>>,
              outcome |-> "decoded", err |-> d.err,
              masked |-> {"skip", "scan", "decode", "tail"},
              begin |-> atBegin.tail, end |-> scan.idx]

GetFrame_ignore_error(rb) ==
    LET cap == getCapacity(rb)
        atBegin == [rb EXCEPT !.tail = skip_to_begin(rb, rb.tail)]
        scan == scan_for_end(atBegin, (atBegin.tail + 1) % cap)
        d == deserialize_from_ring(NoFrame, atBegin)
    IN  IF atBegin.tail = rb.head
        THEN [rb |-> atBegin, ret |-> <<>>, outcome |-> "empty", err |-> "none",
              masked |-> {"skip"},
              begin |-> atBegin.tail, end |-> atBegin.tail]
        ELSE IF scan.begin
        THEN [rb |-> [rb EXCEPT !.tail = scan.idx], ret |-> <<>>, outcome |-> "resync",
              err |-> "none", masked |-> {"skip", "scan", "tail"},
              begin |-> atBegin.tail, end |-> scan.idx]
        ELSE IF rb.head = scan.idx \/ rb.buf[scan.idx] # END_FRAME_BYTE
        THEN [rb |-> atBegin, ret |-> <<>>, outcome |-> "incomplete", err |-> "none",
              masked |-> {"skip", "scan"},
              begin |-> atBegin.tail, end |-> scan.idx]
        ELSE [rb |-> [rb EXCEPT !.tail = (scan.idx + 1) % cap],
              ret |-> << d.frame >>,
              outcome |-> "decoded", err |-> d.err,
              masked |-> {"skip", "scan", "decode", "tail"},
              begin |-> atBegin.tail, end |-> scan.idx]

\* GetFrame, run with interrupts masked from its first to its last statement:
\* the ring afterwards, the optional<Frame> returned (<<>> is nullopt), the
\* branch taken, the decoder's result, the indices of the window examined, and
\* the steps run between __disable_irq and the __enable_irq of the branch: the
\* loop that skips to BEGIN, the scan for END, the decode, the write of tail
GetFrame(rb) ==
    LET cap == getCapacity(rb)
        atBegin == [rb EXCEPT !.tail = skip_to_begin(rb, rb.tail)]
        scan == scan_for_end(atBegin, (atBegin.tail + 1) % cap)
        d == deserialize_from_ring(NoFrame, atBegin)
    IN  IF atBegin.tail = rb.head
        THEN [rb |-> atBegin, ret |-> <<>>, outcome |-> "empty", err |-> "none",
              masked |-> {"skip"},
              begin |-> atBegin.tail, end |-> atBegin.tail]
        ELSE IF scan.begin
        THEN [rb |-> [rb EXCEPT !.tail = scan.idx], ret |-> <<>>, outcome |-> "resync",
              err |-> "none", masked |-> {"skip", "scan", "tail"},
              begin |-> atBegin.tail, end |-> scan.idx]
        ELSE IF rb.head = scan.idx \/ rb.buf[scan.idx] # END_FRAME_BYTE
        THEN [rb |-> atBegin, ret |-> <<>>, outcome |-> "incomplete", err |-> "none",
              masked |-> {"skip", "scan"},
              begin |-> atBegin.tail, end |-> scan.idx]
        ELSE [rb |-> [rb EXCEPT !.tail = (scan.idx + 1) % cap],
              ret |-> IF d.err = "DeserializeOk" THEN << d.frame >> ELSE <<>>,
              outcome |-> "decoded", err |-> d.err,
              masked |-> {"skip", "scan", "decode", "tail"},
              begin |-> atBegin.tail, end |-> scan.idx]

\* place in the received byte stream (first byte = 1) of ring index idx, when
\* nRecv bytes have been committed to rb
StreamPos(rb, nRecv, idx) ==
    nRecv - Len(Contents(rb)) + ((idx - rb.tail) % getCapacity(rb)) + 1

\* the record kept of a GetFrame call that turned `before` into r
GetLogOf(before, r, nRecv, prevEnd) ==
    [outcome |-> r.outcome, before |-> before, ret |-> r.ret, err |-> r.err,
     masked |-> r.masked, tail |-> r.rb.tail,
     begin |-> StreamPos(before, nRecv, r.begin),
     end |-> StreamPos(before, nRecv, r.end),
     prevEnd |-> prevEnd]

\* the frames a peer sends: one for this node with a payload byte that needs
\* escaping, one for another node
\* the request "ON" from a peer whose address needs an escape on the line
FrameToLocal == [sender |-> ESCAPE_BYTE, receiver |-> LOCAL_ID, data |-> << 79, 78 >>]

\* the same request addressed to another device on the line
FrameToOther == [sender |-> 3, receiver |-> 7, data |-> << 79, 78 >>]

\* a request to this device whose payload is a single space
FrameBlank == [sender |-> 2, receiver |-> LOCAL_ID, data |-> << SPACE >>]

WireFrames == {FrameToLocal, FrameToOther, FrameBlank}

\* what the peer puts on the line for a frame
Encoded(f) == serialize_into(f, <<>>, FRAME_MAX_SIZE * 2).out

\* an encoded frame whose last CRC byte was damaged on the line
Corrupt(enc) == [enc EXCEPT ![Len(enc) - 1] = IF @ = 0 THEN 1 ELSE 0]

\* the pieces a byte stream is made of: valid frames, a damaged frame, a lone
\* BEGIN, a noise byte, and a frame the peer abandoned after four bytes
Segments ==
    { [frame |-> << f >>, bytes |-> Encoded(f)] : f \in WireFrames }
    \cup { [frame |-> <<>>, bytes |-> b] :
               b \in { Corrupt(Encoded(FrameToLocal)), << BEGIN_FRAME_BYTE >>, << 85 >>,
                       Take(Encoded(FrameToLocal), 4) } }

\* the streams of up to n pieces
RECURSIVE Scripts(_)
Scripts(n) ==
    IF n = 0 THEN { <<>> }
    ELSE LET shorter == Scripts(n - 1)
         IN  shorter \cup { Append(w, g) : w \in shorter, g \in Segments }

\* the bytes of a stream, in the order they are on the line
RECURSIVE Flatten(_)
Flatten(script) ==
    IF script = <<>> THEN <<>> ELSE Head(script).bytes \o Flatten(Tail(script))

\* head = tail = 0 after reset; head = tail further on after noise bytes of
\* value 0 were received and skipped, so that frames wrap around the ring end
StartIndexes == {0, RxCap - 3}

RxInit ==
    /\ \E s \in StartIndexes :
           gRxBuffer = [CircularBuffer(RxCap) EXCEPT !.head = s, !.tail = s]
    /\ sent \in Scripts(MaxSegs) \ { <<>> }
    /\ wire = Flatten(sent)
    /\ nReceived = 0
    /\ pc = "main"
    /\ returned = <<>>
    /\ handled = <<>>
    /\ getLog = NoGetLog
    /\ decodedEnd = 0
    /\ sawPartial = FALSE
    /\ arrived = FALSE
    /\ decodeLog = NoDecodeLog
    /\ evicted = {}
    /\ gDeviceState = DeviceState
    /\ htim2 = [ARR |-> TIMER_FREQ - 1]
    /\ fault = FALSE
    /\ cmdLog = NoCmdLog
    /\ txLog = <<>>
    /\ TxIdle

\* the receive interrupt: the UART has stored the next byte of the line at
\* buf[head] (ReceiveBytes armed it there) and HAL_UART_RxCpltCallback commits it
UartRxInterrupt ==
    /\ ~fault
    /\ nReceived < Len(wire)
    /\ gRxBuffer' = HAL_UART_RxCpltCallback(gRxBuffer, wire[nReceived + 1])
    /\ nReceived' = nReceived + 1
    /\ evicted' = IF (gRxBuffer.head + 1) % getCapacity(gRxBuffer) = gRxBuffer.tail
                  THEN evicted \cup { StreamPos(gRxBuffer, nReceived, gRxBuffer.tail) }
                  ELSE evicted
    /\ arrived' = TRUE
    /\ getLog' = NoGetLog
    /\ cmdLog' = NoCmdLog
    /\ UNCHANGED <<sent, wire, pc, returned, handled, decodedEnd, sawPartial, decodeLog,
                   gDeviceState, htim2, fault, txLog, txVars, codecVars, vecVars, ringVars>>

\* SendData: its arguments, the Frame it builds and the bytes handed to
\* UART_puts, none when the frame cannot be serialized
SendData(receiver, data) ==
    LET frame == [sender |-> LOCAL_ID, receiver |-> receiver,
                  data |-> push_slice(<<>>, FRAME_DATA_MAX_SIZE, data)]
        buffer == serialize_into(frame, <<>>, FRAME_MAX_SIZE * 2)
    IN  [receiver |-> receiver, data |-> data, frame |-> frame,
         bytes |-> IF buffer.err = "SerializeOk" THEN buffer.out ELSE <<>>]

Dispatch_any_receiver(ret, m, divTrap) ==
    LET parsed == ret # <<>>
        command == IF parsed THEN ParseCommands(ret[1].data) ELSE <<>>
        r == IF command = <<>> THEN m ELSE ExecuteCommand(m, command, divTrap)
    IN  [parsed |-> parsed,
         command |-> command,
         m |-> r,
         sends |-> IF command = <<>> \/ r.fault THEN <<>>
                   ELSE << SendData(ret[1].sender, r.ret) >>]

\* the body of the while loop of HandlePendingCommands for the result of
\* GetFrame: a frame for another receiver is skipped, a frame for LOCAL_ID is
\* parsed and, when ParseCommands yields a command, executed and answered;
\* parsed tells whether ParseCommands was called, sends lists the SendData calls
Dispatch(ret, m, divTrap) ==
    LET parsed == ret # <<>> /\ ret[1].receiver = LOCAL_ID
        command == IF parsed THEN ParseCommands(ret[1].data) ELSE <<>>
        r == IF command = <<>> THEN m ELSE ExecuteCommand(m, command, divTrap)
    IN  [parsed |-> parsed,
         command |-> command,
         m |-> r,
         sends |-> IF command = <<>> \/ r.fault THEN <<>>
                   ELSE << SendData(ret[1].sender, r.ret) >>]

\* whether a division by zero in a handler traps: either way when a frame is
\* dispatched, of no matter when GetFrame returned none
DivisionTraps(ret) == IF ret = <<>> THEN { FALSE } ELSE BOOLEAN

\* the main loop calls HandlePendingCommands: first pass of its while loop
HandlePendingCommands ==
    /\ pc = "main"
    /\ ~fault
    /\ \E r \in { GetFrame(gRxBuffer) } : \E divTrap \in DivisionTraps(r.ret) :
         \E d \in { Dispatch(r.ret, Run(gDeviceState, htim2.ARR), divTrap) } :
           /\ gRxBuffer' = r.rb
           /\ getLog' = GetLogOf(gRxBuffer, r, nReceived, decodedEnd)
           /\ decodedEnd' = IF r.outcome = "decoded"
                            THEN StreamPos(gRxBuffer, nReceived, r.end) ELSE decodedEnd
           /\ sawPartial' = (sawPartial \/ r.outcome = "incomplete")
           /\ arrived' = FALSE
           /\ returned' = returned \o r.ret
           /\ handled' = IF r.ret # <<>> /\ r.ret[1].receiver = LOCAL_ID
                         THEN Append(handled, r.ret[1]) ELSE handled
           /\ gDeviceState' = d.m.dev
           /\ htim2' = [ARR |-> d.m.ARR]
           /\ fault' = d.m.fault
           /\ cmdLog' = [called |-> d.command # <<>>, args |-> d.command,
                         ret |-> d.m.ret, invoked |-> d.m.invoked, calls |-> d.m.calls,
                         before |-> gDeviceState, beforeARR |-> htim2.ARR,
                         parsed |-> d.parsed, sends |-> d.sends]
           /\ txLog' = txLog \o d.sends
           /\ pc' = IF r.ret = <<>> THEN "main" ELSE "loop"
           /\ UNCHANGED <<sent, wire, nReceived, decodeLog, evicted, txVars,
                          codecVars, vecVars, ringVars>>

\* a further pass of the while loop of HandlePendingCommands
HandlePendingCommandsLoop ==
    /\ pc = "loop"
    /\ ~fault
    /\ \E r \in { GetFrame(gRxBuffer) } : \E divTrap \in DivisionTraps(r.ret) :
         \E d \in { Dispatch(r.ret, Run(gDeviceState, htim2.ARR), divTrap) } :
           /\ gRxBuffer' = r.rb
           /\ getLog' = GetLogOf(gRxBuffer, r, nReceived, decodedEnd)
           /\ decodedEnd' = IF r.outcome = "decoded"
                            THEN StreamPos(gRxBuffer, nReceived, r.end) ELSE decodedEnd
           /\ sawPartial' = (sawPartial \/ r.outcome = "incomplete")
           /\ returned' = returned \o r.ret
           /\ handled' = IF r.ret # <<>> /\ r.ret[1].receiver = LOCAL_ID
                         THEN Append(handled, r.ret[1]) ELSE handled
           /\ gDeviceState' = d.m.dev
           /\ htim2' = [ARR |-> d.m.ARR]
           /\ fault' = d.m.fault
           /\ cmdLog' = [called |-> d.command # <<>>, args |-> d.command,
                         ret |-> d.m.ret, invoked |-> d.m.invoked, calls |-> d.m.calls,
                         before |-> gDeviceState, beforeARR |-> htim2.ARR,
                         parsed |-> d.parsed, sends |-> d.sends]
           /\ txLog' = txLog \o d.sends
           /\ pc' = IF r.ret = <<>> THEN "main" ELSE "loop"
           /\ UNCHANGED <<sent, wire, nReceived, arrived, decodeLog, evicted, txVars,
                          codecVars, vecVars, ringVars>>

InitRx == RxInit /\ CodecIdle /\ VecIdle /\ RingIdle

NextRx == UartRxInterrupt \/ HandlePendingCommands \/ HandlePendingCommandsLoop

SpecRx == InitRx /\ [][NextRx]_vars

\* the receive interrupt on a line whose bytes the main loop keeps up with:
\* the byte is committed while a slot is free, so that none is evicted
UartRxInterruptInTime ==
    /\ (gRxBuffer.head + 1) % getCapacity(gRxBuffer) # gRxBuffer.tail
    /\ UartRxInterrupt

NextRxInTime == UartRxInterruptInTime \/ HandlePendingCommands \/ HandlePendingCommandsLoop

\* a pass of HandlePendingCommands would change the state: none was made
\* since the last byte arrived, or the last one moved tail
PassDue ==
    /\ ~fault
    /\ \/ getLog.outcome = "none"
       \/ getLog.before # gRxBuffer
       \/ pc = "main" /\ arrived

\* the main loop calls HandlePendingCommands again and again: weak fairness
\* of its passes, with PassDue for the enabling condition of a pass and the
\* pass told from the interrupt by the count of received bytes
MainLoopRuns == []<>(~PassDue) \/ []<><<nReceived' = nReceived>>_vars

SpecRxLive == InitRx /\ [][NextRxInTime]_vars /\ MainLoopRuns

(***************************************************************************)
(* The receive path on a ring that the line overruns: the ring holds one   *)
(* encoded frame and a few bytes more, so that the interrupt evicts bytes  *)
(* whenever the main loop falls behind by more than that, and every stream *)
(* of two frames wraps around the end of the array.                        *)
(***************************************************************************)
\* capacity of gRxBuffer in the overrun runs
OverrunCap == 16

OverrunInit ==
    /\ gRxBuffer = CircularBuffer(OverrunCap)
    /\ sent \in Scripts(MaxSegs) \ { <<>> }
    /\ wire = Flatten(sent)
    /\ nReceived = 0
    /\ pc = "main"
    /\ returned = <<>>
    /\ handled = <<>>
    /\ getLog = NoGetLog
    /\ decodedEnd = 0
    /\ sawPartial = FALSE
    /\ arrived = FALSE
    /\ decodeLog = NoDecodeLog
    /\ evicted = {}
    /\ gDeviceState = DeviceState
    /\ htim2 = [ARR |-> TIMER_FREQ - 1]
    /\ fault = FALSE
    /\ cmdLog = NoCmdLog
    /\ txLog = <<>>
    /\ TxIdle

InitOverrun == OverrunInit /\ CodecIdle /\ VecIdle /\ RingIdle

NextOverrun == UartRxInterrupt \/ HandlePendingCommands \/ HandlePendingCommandsLoop

SpecOverrun == InitOverrun /\ [][NextOverrun]_vars

(***************************************************************************)
(* Response harness: the part of HandlePendingCommands that follows        *)
(* ParseCommands, ExecuteCommand on the tokens of a request and SendData   *)
(* of what the handler wrote, for requests that fit the payload of a frame *)
(* and whose responses are short, as long as a payload, or longer.         *)
(***************************************************************************)
\* the peer that sent the request
PeerId == 2

\* SET_DUTY_CYCLES followed by n arguments `arg`
DutyCyclesRequest(n, arg) ==
    << kCommandHandlers[4].commandName >> \o [i \in 1..n |-> arg]

\* a payload that ParseCommands splits into the tokens args
RequestPayload(args) == Tail(SpaceJoined(args))

\* requests: each command, accepted and rejected, SET_DUTY_CYCLES with 312
\* arguments "100" (the response fits a frame) and with 250 arguments "0100"
\* (the request fits a frame, the response does not)
Requests ==
    { << name >> : name \in NameTokens }
    \cup { << kCommandHandlers[k].commandName, arg >> :
               k \in { 3, 4, 5 }, arg \in { << 55 >>, << 49, 48, 49 >>, << 53, 120 >> } }
    \cup { DutyCyclesRequest(kCommandHandlers[4].maxArgs, << 49, 48, 48 >>),
           DutyCyclesRequest(250, << 48, 49, 48, 48 >>) }

\* HandlePendingCommands from ExecuteCommand to SendData, for one request
Answer ==
    /\ ~fault
    /\ ~cmdLog.called
    /\ \E args \in Requests : \E divTrap \in BOOLEAN :
           \E r \in { ExecuteCommand(Run(gDeviceState, htim2.ARR), args, divTrap) } :
               /\ gDeviceState' = r.dev
               /\ htim2' = [ARR |-> r.ARR]
               /\ fault' = r.fault
               /\ cmdLog' = [called |-> TRUE, args |-> args, ret |-> r.ret,
                             invoked |-> r.invoked, calls |-> r.calls,
                             before |-> gDeviceState, beforeARR |-> htim2.ARR,
                             parsed |-> TRUE,
                             sends |-> IF r.fault THEN <<>>
                                       ELSE << SendData(PeerId, r.ret) >>]
               /\ UNCHANGED <<txLog, txVars, codecVars, vecVars, ringVars, rxVars>>

InitSend == CmdInit /\ CodecIdle /\ VecIdle /\ RingIdle /\ RxIdle

NextSend == Answer \/ Respond

SpecSend == InitSend /\ [][NextSend]_vars

(***************************************************************************)
(* The transmit path: UART_puts, HAL_UART_TxCpltCallback and the loop of   *)
(* SendData.  UART_puts runs with interrupts masked and the callback runs  *)
(* in the interrupt, so each is one step.                                  *)
(***************************************************************************)
\* HAL_UART_Transmit_IT(&huart2, buffer.getBuf() + slot, 1): the UART takes
\* the byte unless a transmission is in progress, which it answers HAL_BUSY
HAL_UART_Transmit_IT(tx, slot) ==
    IF tx.huart2.inFlight # <<>>
    THEN [tx EXCEPT !.huart2.refused = TRUE]
    ELSE [tx EXCEPT !.huart2.inFlight = << slot >>,
                    !.huart2.handed = Append(@, tx.buffer.buf[slot])]

\* the copying loop without the test for a full ring
RECURSIVE puts_loop_overwrite(_, _, _)
puts_loop_overwrite(rb, v, idx) ==
    IF idx < Len(v)
    THEN puts_loop_overwrite([rb EXCEPT !.buf[rb.head] = v[idx + 1],
                                        !.head = (rb.head + 1) % getCapacity(rb)],
                             v, idx + 1)
    ELSE [rb |-> rb, idx |-> idx]

\* the copying loop of UART_puts: the ring afterwards and idx
RECURSIVE puts_loop(_, _, _)
puts_loop(rb, v, idx) ==
    IF (rb.head + 1) % getCapacity(rb) # rb.tail /\ idx < Len(v)
    THEN puts_loop([rb EXCEPT !.buf[rb.head] = v[idx + 1],
                              !.head = (rb.head + 1) % getCapacity(rb)],
                   v, idx + 1)
    ELSE [rb |-> rb, idx |-> idx]

\* UART_puts that starts a transmission whenever the ring holds a byte
UART_puts_always_start(tx, v) ==
    LET copied == puts_loop(tx.buffer, v, 0)
        filled == [tx EXCEPT !.buffer = copied.rb]
    IN  [tx |-> IF copied.rb.head # copied.rb.tail
                THEN HAL_UART_Transmit_IT([filled EXCEPT !.busy = TRUE], copied.rb.tail)
                ELSE filled,
         ret |-> copied.idx]

\* UART_puts(v) between __disable_irq and __enable_irq: the transmit state
\* afterwards and the value returned
UART_puts(tx, v) ==
    LET copied == puts_loop(tx.buffer, v, 0)
        filled == [tx EXCEPT !.buffer = copied.rb]
    IN  [tx |-> IF copied.rb.head # copied.rb.tail /\ ~tx.busy
                THEN HAL_UART_Transmit_IT([filled EXCEPT !.busy = TRUE], copied.rb.tail)
                ELSE filled,
         ret |-> copied.idx]

\* HAL_UART_TxCpltCallback: the transmission of the byte at tail is over
HAL_UART_TxCpltCallback(tx) ==
    LET tail == (tx.buffer.tail + 1) % getCapacity(tx.buffer)
        moved == [tx EXCEPT !.buffer.tail = tail, !.huart2.inFlight = Tail(@)]
    IN  IF tail = tx.buffer.head
        THEN [moved EXCEPT !.busy = FALSE]
        ELSE HAL_UART_Transmit_IT(moved, tail)

\* the responses SendData is called with
TxResponses == { kPwmOn, kInvalidArgument }

\* SendData up to its loop: the frame is built and serialized
SendDataCall ==
    /\ txPc = "idle"
    /\ nSends < MaxSends
    /\ \E data \in TxResponses : \E s \in { SendData(PeerId, data) } :
           /\ serialized' = s.bytes
           /\ stream' = stream \o s.bytes
           /\ txPc' = IF s.bytes = <<>> THEN "idle" ELSE "loop"
    /\ wrote' = 0
    /\ nSends' = nSends + 1
    /\ putLog' = NoPutLog
    /\ UNCHANGED <<txBuffer, busy, huart2, gDeviceState, htim2, fault, cmdLog, txLog,
                   codecVars, vecVars, ringVars, rxVars>>

\* one pass of the loop of SendData:
\* wrote += UART_puts(serialized.span().last(serialized.size() - wrote))
SendDataLoop ==
    /\ txPc = "loop"
    /\ \E r \in { UART_puts([buffer |-> txBuffer, busy |-> busy, huart2 |-> huart2],
                             Drop(serialized, wrote)) } :
           /\ txBuffer' = r.tx.buffer
           /\ busy' = r.tx.busy
           /\ huart2' = r.tx.huart2
           /\ wrote' = wrote + r.ret
           /\ txPc' = IF wrote + r.ret < Len(serialized) THEN "loop" ELSE "idle"
           /\ putLog' = [called |-> TRUE, before |-> txBuffer, v |-> Drop(serialized, wrote),
                         ret |-> r.ret]
    /\ UNCHANGED <<serialized, stream, nSends, gDeviceState, htim2, fault, cmdLog, txLog,
                   codecVars, vecVars, ringVars, rxVars>>

\* the transmit-complete interrupt of the transmission in progress
UartTxInterrupt ==
    /\ huart2.inFlight # <<>>
    /\ \E t \in { HAL_UART_TxCpltCallback([buffer |-> txBuffer, busy |-> busy,
                                             huart2 |-> huart2]) } :
           /\ txBuffer' = t.buffer
           /\ busy' = t.busy
           /\ huart2' = t.huart2
    /\ putLog' = NoPutLog
    /\ UNCHANGED <<serialized, wrote, txPc, stream, nSends, gDeviceState, htim2, fault,
                   cmdLog, txLog, codecVars, vecVars, ringVars, rxVars>>

InitTx == DevIdle /\ CodecIdle /\ VecIdle /\ RingIdle /\ RxIdle

NextTx == SendDataCall \/ SendDataLoop \/ UartTxInterrupt

SpecTx == InitTx /\ [][NextTx]_vars

\* the transmit-complete interrupt keeps firing and SendData keeps running
SpecTxLive == SpecTx /\ WF_vars(UartTxInterrupt) /\ WF_vars(SendDataLoop)

(***************************************************************************)
(* Decoder harness (proto_cross_test/bindings/frame.cpp, deserialize_frame)*)
(* : Frame::deserialize_from is called on bytes that no serializer         *)
(* produced.  The inputs are a start byte, the fields sender and receiver, *)
(* a length field, up to MaxFill further bytes and an end byte, with each  *)
(* part right or wrong, and the encodings of valid frames.                 *)
(***************************************************************************)
\* length fields: 0, 1, and a value above FRAME_DATA_MAX_SIZE
LengthFields == { << 0, 0 >>, << 0, 1 >>, << 255, 255 >> }

\* the bytes after the length field: plain bytes, escape markers, the code of
\* an escaped ESCAPE_BYTE, and unescaped BEGIN bytes
FillBytes == { 0, ESCAPE_BYTE, ESCAPE_TABLE[1][2], BEGIN_FRAME_BYTE }

\* sender and receiver: plain, and with a sender that is escaped on the line
AddressFields == { << 1, LOCAL_ID >>, << ESCAPE_BYTE, ESCAPE_TABLE[2][2], LOCAL_ID >> }

Spans ==
    { << first >> \o addr \o len \o fill \o << last >> :
          first \in { BEGIN_FRAME_BYTE, 85 }, last \in { END_FRAME_BYTE, 85 },
          addr \in AddressFields, len \in LengthFields,
          fill \in SeqsUpTo(FillBytes, MaxFill) }
    \cup { Encoded(f) : f \in WireFrames }

DecodeInit ==
    /\ srcFrame = NoFrame
    /\ out \in Spans
    /\ outCap = 0
    /\ serializeResult = "none"
    /\ dstFrame = NoFrame
    /\ deserializeResult = "none"
    /\ codecPc = "serialized"

InitDecode == DecodeInit /\ VecIdle /\ RingIdle /\ RxIdle /\ DevIdle

NextDecode == Deserialize

SpecDecode == InitDecode /\ [][NextDecode]_vars

\* the ring after the interrupt has committed bytes[i..] to rb
RECURSIVE Receive(_, _, _)
Receive(rb, bytes, i) ==
    IF i > Len(bytes) THEN rb
    ELSE Receive(HAL_UART_RxCpltCallback(rb, bytes[i]), bytes, i + 1)

(***************************************************************************)
(* The window harness: Frame::deserialize_from(ICircularBuffer&) and       *)
(* Frame::deserialize_from(std::span) on the same bytes.  A window is a    *)
(* BEGIN, bytes without an END, and an END: the encoding of a frame, or    *)
(* fields and fill bytes no serializer produced.  The interrupt has        *)
(* committed the window and the bytes after it to a ring whose tail is on  *)
(* the BEGIN, at the start of the array or so that the window wraps.       *)
(***************************************************************************)
\* most fill bytes of a crafted window
MaxWindowFill == 3

Windows ==
    { << BEGIN_FRAME_BYTE >> \o addr \o len \o fill \o << END_FRAME_BYTE >> :
          addr \in AddressFields, len \in LengthFields,
          fill \in SeqsUpTo(FillBytes \ {END_FRAME_BYTE}, MaxWindowFill) }
    \cup { Encoded(f) : f \in Frames \cup WireFrames }

\* what the line carried after the END of the window
Trailers ==
    { <<>>, << ESCAPE_TABLE[1][2] >>, << END_FRAME_BYTE, ESCAPE_TABLE[1][2] >> }

\* tail when the window arrived: the start of the array, and places from
\* which the window wraps
WindowStarts == {0, RxCap - 1, RxCap - 5}

\* slots the interrupt has not written hold bytes of earlier traffic
UsedRing(SIZE) == [buf |-> [i \in 0..(SIZE - 1) |-> ESCAPE_TABLE[1][2]], head |-> 0, tail |-> 0]

WindowInit ==
    /\ \E w \in Windows : \E t \in Trailers : \E s \in WindowStarts :
           /\ Len(w) + Len(t) < RxCap
           /\ out = w
           /\ wire = w \o t
           /\ gRxBuffer = Receive([UsedRing(RxCap) EXCEPT !.head = s, !.tail = s], w \o t, 1)
    /\ srcFrame = NoFrame
    /\ outCap = 0
    /\ serializeResult = "none"
    /\ dstFrame = NoFrame
    /\ deserializeResult = "none"
    /\ codecPc = "serialized"
    /\ sent = <<>>
    /\ nReceived = Len(wire)
    /\ pc = "window"
    /\ returned = <<>>
    /\ handled = <<>>
    /\ getLog = NoGetLog
    /\ decodedEnd = 0
    /\ sawPartial = FALSE
    /\ arrived = FALSE
    /\ decodeLog = NoDecodeLog
    /\ evicted = {}

\* Frame frame; frame.deserialize_from(gRxBuffer), as GetFrame calls it
DeserializeFromRing ==
    /\ pc = "window"
    /\ ~decodeLog.called
    /\ \E d \in { deserialize_from_ring(NoFrame, gRxBuffer) } :
           decodeLog' = [called |-> TRUE, err |-> d.err, frame |-> << d.frame >>,
                         reads |-> d.reads, visited |-> d.visited]
    /\ UNCHANGED <<gRxBuffer, sent, wire, nReceived, pc, returned, handled, getLog,
                   decodedEnd, sawPartial, arrived, evicted,
                   codecVars, vecVars, ringVars, devVars>>

InitWindow == WindowInit /\ VecIdle /\ RingIdle /\ DevIdle

NextWindow == DeserializeFromRing \/ Deserialize

SpecWindow == InitWindow /\ [][NextWindow]_vars

(***************************************************************************)
(* Claims about the containers.                                            *)
(***************************************************************************)
\* C3: under push_head and pop_tail alone, the bytes pop_tail returned are a
\* prefix of the bytes push_head accepted, and push_head accepts whenever
\* fewer than C-1 bytes are stored (so C-1 pushes into an empty ring followed
\* by C-1 pops give the pushed sequence back).
C3_Fifo ==
    /\ IsPrefix(popped, accepted)
    /\ (ringOp.name = "push_head" /\ Len(Contents(ringOp.before)) < RingSize - 1)
           => ringOp.ret = <<>>

\* C-1 bytes, not all equal, went in and came out
C3_Witness ==
    /\ ringOp.name = "pop_tail"
    /\ Len(popped) = RingSize - 1
    /\ popped = accepted
    /\ popped[1] # popped[2]

\* C4: a commit by advance_head into a ring holding C-1 bytes evicts exactly
\* the oldest byte (tail moves by one) and leaves the C-1 most recently
\* committed bytes in arrival order; a commit into a ring that is not full
\* leaves tail alone and appends the byte.
C4_Overrun ==
    ringOp.name = "advance_head" =>
        LET old == Contents(ringOp.before)
        IN  IF Len(old) = RingSize - 1
            THEN /\ cb.tail = (ringOp.before.tail + 1) % RingSize
                 /\ Contents(cb) = Append(Tail(old), ringOp.val)
                 /\ Contents(cb) = Drop(committed, Len(committed) - (RingSize - 1))
            ELSE /\ cb.tail = ringOp.before.tail
                 /\ Contents(cb) = Append(old, ringOp.val)

\* a commit into a full ring whose oldest byte differs from the new one
C4_Witness ==
    /\ ringOp.name = "advance_head"
    /\ Len(Contents(ringOp.before)) = RingSize - 1
    /\ Contents(ringOp.before)[1] # ringOp.val
    /\ cb.tail # ringOp.before.tail

\* C5: head and tail stay in 0..C-1, the ring holds exactly the stored queue,
\* which is empty exactly when head = tail and never longer than C-1.
C5_RingInvariant ==
    /\ cb.head \in 0..(RingSize - 1)
    /\ cb.tail \in 0..(RingSize - 1)
    /\ (stored = <<>>) <=> (cb.head = cb.tail)
    /\ Len(stored) <= RingSize - 1
    /\ Contents(cb) = stored

\* a full ring whose contents wrap around the end of the array
C5_Witness ==
    /\ Len(stored) = RingSize - 1
    /\ cb.head < cb.tail
    /\ ringOp.name \in {"push_head", "advance_head"}
    /\ popped # <<>>

\* C6: getSize() returns the number of bytes stored between tail and head.
C6_OccupiedCount == ringOp.name = "getSize" => ringOp.ret = <<Len(stored)>>

\* C7: size <= N; push_back on a full vector returns the value and changes
\* nothing, push_back below capacity returns nothing and appends; pop_back on
\* an empty vector returns nothing and leaves it empty.
C7_FixedVector ==
    LET span == StaticVec_span(vecHead, vecInner)
    IN  /\ vecHead <= VecSize
        /\ vecOp.name = "push_back" =>
               IF Len(vecOp.before) = VecSize
               THEN vecOp.ret = <<vecOp.val>> /\ span = vecOp.before
               ELSE vecOp.ret = <<>> /\ span = Append(vecOp.before, vecOp.val)
        /\ (vecOp.name = "pop_back" /\ vecOp.before = <<>>) =>
               vecOp.ret = <<>> /\ span = <<>>
        /\ vecOp.name = "clear" => span = <<>>

\* a push_back rejected by a full vector
C7_Witness ==
    /\ vecOp.name = "push_back"
    /\ Len(vecOp.before) = VecSize
    /\ vecOp.ret = <<vecOp.val>>
    /\ vecHead = VecSize

(***************************************************************************)
(* Claims about the codec.                                                 *)
(***************************************************************************)
\* the bytes of a Frame before escaping: fields, then the CRC
RawFields(f) ==
    to_be_bytes8(f.sender) \o to_be_bytes8(f.receiver)
        \o to_be_bytes16(Len(f.data)) \o f.data \o to_be_bytes32(Frame_crc32(f))

NeedsEscape(b) == b \in {ESCAPE_BYTE, BEGIN_FRAME_BYTE, END_FRAME_BYTE}

\* length of the wire form: two delimiters, one byte per field byte and one
\* more for each that needs escaping
WireLength(f) ==
    LET raw == RawFields(f)
    IN  2 + Len(raw) + Cardinality({ i \in 1..Len(raw) : NeedsEscape(raw[i]) })

\* C1: a Frame serialized into a destination that can hold its wire form
\* gives SerializeOk, and deserializing the bytes gives DeserializeOk and a
\* Frame with the same sender, receiver and payload.
C1_RoundTrip ==
    (codecPc # "new_frame" /\ outCap >= WireLength(srcFrame)) =>
        /\ serializeResult = "SerializeOk"
        /\ codecPc = "deserialized" =>
               /\ deserializeResult = "DeserializeOk"
               /\ frame_eq(dstFrame, srcFrame)
               /\ dstFrame = srcFrame

\* a payload of escaped bytes came back, into an object that held other data
C1_Witness ==
    /\ codecPc = "deserialized"
    /\ srcFrame.data = <<BEGIN_FRAME_BYTE, ESCAPE_BYTE>>
    /\ srcFrame.sender = BEGIN_FRAME_BYTE
    /\ srcFrame.receiver = END_FRAME_BYTE
    /\ deserializeResult = "DeserializeOk"
    /\ dstFrame = srcFrame

\* C2: in the output of a successful serialize_into, BEGIN occurs at the
\* first index only and END at the last index only.
C2_Escaping ==
    (codecPc # "new_frame" /\ serializeResult = "SerializeOk") =>
        /\ out[1] = BEGIN_FRAME_BYTE
        /\ out[Len(out)] = END_FRAME_BYTE
        /\ \A i \in 1..Len(out) :
               /\ out[i] = BEGIN_FRAME_BYTE => i = 1
               /\ out[i] = END_FRAME_BYTE => i = Len(out)

\* sender, receiver and payload all need escaping, and so does a CRC byte
C2_Witness ==
    /\ codecPc = "serialized"
    /\ serializeResult = "SerializeOk"
    /\ NeedsEscape(srcFrame.sender)
    /\ NeedsEscape(srcFrame.receiver)
    /\ \E i \in 1..Len(srcFrame.data) : srcFrame.data[i] = END_FRAME_BYTE
    /\ \E i \in 1..4 : NeedsEscape(to_be_bytes32(Frame_crc32(srcFrame))[i])

(***************************************************************************)
(* Claims about the frame extractor.                                       *)
(***************************************************************************)
\* index of the first element of c at or after `from` that lies in S, else 0
FirstIn(c, S, from) ==
    LET hits == { i \in from..Len(c) : c[i] \in S }
    IN  IF hits = {} THEN 0 ELSE CHOOSE i \in hits : \A j \in hits : i <= j

\* C8: when the ring holds a BEGIN, then an END before head with no BEGIN in
\* between, GetFrame runs the decoder on that window and leaves tail on the
\* index just after the END whether or not decoding succeeded; it returns a
\* Frame only when decoding succeeded; and every window it decodes starts
\* after the END of every window decoded before, so no bytes are decoded twice.
C8_ConsumedOnce ==
    LET c == Contents(getLog.before)
        b == FirstIn(c, {BEGIN_FRAME_BYTE}, 1)
        e == IF b = 0 THEN 0 ELSE FirstIn(c, {BEGIN_FRAME_BYTE, END_FRAME_BYTE}, b + 1)
    IN  /\ (getLog.outcome # "none" /\ b # 0 /\ e # 0 /\ c[e] = END_FRAME_BYTE) =>
               /\ getLog.outcome = "decoded"
               /\ getLog.tail = (getLog.before.tail + e) % getCapacity(getLog.before)
               /\ getLog.end - getLog.begin = e - b
               /\ (getLog.ret # <<>>) <=> (getLog.err = "DeserializeOk")
        /\ getLog.outcome = "decoded" =>
               /\ getLog.begin > getLog.prevEnd
               /\ decodedEnd = getLog.end

\* a damaged frame was decoded and dropped after a valid one had been returned
C8_Witness ==
    /\ getLog.outcome = "decoded"
    /\ getLog.err = "CRC32MissMatch"
    /\ getLog.ret = <<>>
    /\ getLog.prevEnd > 0
    /\ returned = << FrameToOther >>
    /\ getLog.tail # getLog.before.tail

\* what the first GetFrame call returns when the whole frame is already there
AllAtOnce(enc) == GetFrame(Receive(CircularBuffer(RxCap), enc, 1)).ret

\* C9: a GetFrame call that finds BEGIN and a part of a valid frame without
\* its END returns no Frame and leaves tail on the BEGIN; a call that finds the
\* frame complete returns the Frame that a single call on the whole frame
\* returns; and a stream that is one valid frame yields nothing before its last
\* byte, that Frame at the first call after it, and never a second Frame.
C9_Resumable ==
    \A k \in 1..Len(sent) :
        sent[k].frame # <<>> =>
            LET c == Contents(getLog.before)
                enc == sent[k].bytes
            IN  /\ (/\ getLog.outcome # "none"
                    /\ c # <<>>
                    /\ Len(c) < Len(enc)
                    /\ IsPrefix(c, enc)) =>
                       /\ getLog.ret = <<>>
                       /\ getLog.tail = getLog.before.tail
                /\ (getLog.outcome # "none" /\ IsPrefix(enc, c)) =>
                       /\ getLog.ret = sent[k].frame
                       /\ getLog.ret = AllAtOnce(enc)
                /\ Len(sent) = 1 =>
                       /\ Len(returned) <= 1
                       /\ nReceived < Len(wire) => returned = <<>>
                       /\ (nReceived = Len(wire) /\ ~arrived /\ getLog.outcome # "none") =>
                              returned = sent[k].frame

\* a frame that wraps around the end of the ring was looked at while partial
\* and returned once complete
C9_Witness ==
    /\ Len(sent) = 1
    /\ sent[1].frame = << FrameToLocal >>
    /\ sawPartial
    /\ getLog.outcome = "decoded"
    /\ getLog.before.tail = RxCap - 3
    /\ returned = << FrameToLocal >>

\* c holds a BEGIN..END window that decodes to a valid frame
HasValidFrame(c) ==
    \E i \in 1..Len(c) : \E j \in (i + 1)..Len(c) :
        /\ c[i] = BEGIN_FRAME_BYTE
        /\ c[j] = END_FRAME_BYTE
        /\ \A k \in (i + 1)..(j - 1) : c[k] \notin {BEGIN_FRAME_BYTE, END_FRAME_BYTE}
        /\ deserialize_from_span(NoFrame, SubSeq(c, i, j)).err = "DeserializeOk"

\* C10: when the loop of HandlePendingCommands has ended and no byte was
\* committed since it began, no complete valid frame is left between tail and
\* head.
C10_Drained ==
    (pc = "main" /\ getLog.outcome # "none" /\ ~arrived) =>
        ~HasValidFrame(Contents(gRxBuffer))

\* the frames of the pieces of a stream, in the order they are on the line
RECURSIVE FramesOf(_)
FramesOf(script) ==
    IF script = <<>> THEN <<>> ELSE Head(script).frame \o FramesOf(Tail(script))

\* the valid frames whose last byte the interrupt has committed
CommittedFrames ==
    LET done == { k \in 1..Len(sent) : Len(Flatten(SubSeq(sent, 1, k))) <= nReceived }
    IN  FramesOf(SubSeq(sent, 1, Cardinality(done)))

\* a is b with some elements left out
RECURSIVE IsSubsequence(_, _)
IsSubsequence(a, b) ==
    IF a = <<>> THEN TRUE
    ELSE IF b = <<>> THEN FALSE
    ELSE IF Head(a) = Head(b) THEN IsSubsequence(Tail(a), Tail(b))
    ELSE IsSubsequence(a, Tail(b))

\* C11: the frames returned by successive GetFrame calls are, in arrival
\* order, a subsequence of the valid frames the interrupt has committed; each
\* committed frame accounts for at most one returned frame
C11_Ordering == IsSubsequence(returned, CommittedFrames)

\* two different valid frames were returned by successive calls of one loop
C11_Witness ==
    /\ Len(returned) = 2
    /\ returned[1] # returned[2]
    /\ pc = "loop"
    /\ getLog.ret = << returned[2] >>
    /\ CommittedFrames = returned

\* C12: a pass of HandlePendingCommands whose window failed to decode (the
\* ring decoder returned anything but DeserializeOk, CRC32MissMatch included)
\* parses nothing, invokes no handler, leaves the device state and the timer
\* alone and sends no response
C12_InvalidNeverProcessed ==
    (getLog.outcome = "decoded" /\ getLog.err # "DeserializeOk") =>
        /\ ~cmdLog.parsed
        /\ ~cmdLog.called
        /\ cmdLog.invoked = <<>>
        /\ gDeviceState = cmdLog.before
        /\ htim2.ARR = cmdLog.beforeARR
        /\ cmdLog.sends = <<>>

\* the request "ON" for this device arrived with a damaged CRC, its window
\* was decoded and dropped, and the PWM is still off with nothing sent
C12_Witness ==
    /\ Len(sent) = 1
    /\ sent[1].frame = <<>>
    /\ getLog.outcome = "decoded"
    /\ getLog.err = "CRC32MissMatch"
    /\ ~gDeviceState.isPwmGenerated
    /\ txLog = <<>>
    /\ sent[1].bytes = Corrupt(Encoded(FrameToLocal))

\* C13: every pass of HandlePendingCommands in which GetFrame returns a frame
\* whose receiver is LOCAL_ID, whatever its payload (also an empty one or one
\* of spaces only), calls SendData exactly once
C13_OneResponse ==
    (getLog.ret # <<>> /\ getLog.ret[1].receiver = LOCAL_ID) => Len(cmdLog.sends) = 1

\* C14: a pass of HandlePendingCommands in which GetFrame returns a valid
\* frame whose receiver is not LOCAL_ID invokes no handler, leaves the device
\* state and the timer alone, hands no byte to the transmitter, and goes on
\* to the next pass of the loop
C14_AddressedElsewhere ==
    (getLog.ret # <<>> /\ getLog.ret[1].receiver # LOCAL_ID) =>
        /\ ~cmdLog.parsed
        /\ ~cmdLog.called
        /\ cmdLog.invoked = <<>>
        /\ gDeviceState = cmdLog.before
        /\ htim2.ARR = cmdLog.beforeARR
        /\ cmdLog.sends = <<>>
        /\ pc = "loop"

\* the request "ON" for another device was returned and skipped, the PWM is
\* still off, and the next pass of the same loop answered the request "ON"
\* for this device that followed it
C14_Witness ==
    /\ Len(sent) = 2
    /\ sent[1].frame = << FrameToOther >>
    /\ sent[2].frame = << FrameToLocal >>
    /\ returned = << FrameToOther, FrameToLocal >>
    /\ getLog.prevEnd = Len(sent[1].bytes)
    /\ Len(Contents(getLog.before)) = Len(sent[2].bytes)
    /\ pc = "loop"
    /\ Len(txLog) = 1
    /\ txLog[1].receiver = FrameToLocal.sender
    /\ gDeviceState.isPwmGenerated

(***************************************************************************)
(* Claims about the errors of Frame::deserialize_from on a linear span.    *)
(* The conditions an input exhibits are read off the input itself: its     *)
(* length, its first and last byte, and the units of its interior, a unit  *)
(* being an escape marker with the byte after it, or a single byte.        *)
(***************************************************************************)
\* the units of the interior of an input, from left to right
RECURSIVE Units(_)
Units(body) ==
    IF body = <<>> THEN <<>>
    ELSE IF body[1] = ESCAPE_BYTE /\ Len(body) >= 2
    THEN << SubSeq(body, 1, 2) >> \o Units(Drop(body, 2))
    ELSE << SubSeq(body, 1, 1) >> \o Units(Drop(body, 1))

EscapeCodes == { ESCAPE_TABLE[k][2] : k \in 1..Len(ESCAPE_TABLE) }

\* what is wrong with one unit
UnitError(unit) ==
    IF unit = << ESCAPE_BYTE >> THEN "UnexpectedEOF"
    ELSE IF Len(unit) = 2 /\ unit[2] \notin EscapeCodes THEN "InvalidEscapeSequence"
    ELSE IF Len(unit) = 1 /\ unit[1] \in { BEGIN_FRAME_BYTE, END_FRAME_BYTE } THEN "InvalidByte"
    ELSE "none"

\* the byte a sound unit stands for
UnitValue(unit) ==
    IF Len(unit) = 1 THEN unit[1]
    ELSE LET k == CHOOSE k \in 1..Len(ESCAPE_TABLE) : ESCAPE_TABLE[k][2] = unit[2]
         IN  ESCAPE_TABLE[k][1]

Interior(encoded) == SubSeq(encoded, 2, Len(encoded) - 1)

\* the input has a sound sender, receiver and length field, and the length
\* it declares is above FRAME_DATA_MAX_SIZE
DeclaresTooBig(encoded) ==
    LET units == Units(Interior(encoded))
    IN  /\ Len(units) >= 4
        /\ \A k \in 1..4 : UnitError(units[k]) = "none"
        /\ UnitValue(units[3]) * TwoTo8 + UnitValue(units[4]) > FRAME_DATA_MAX_SIZE

\* the error conditions an input exhibits, by the name of their error
Exhibits(encoded) ==
    LET units == Units(Interior(encoded))
        errors == { UnitError(units[k]) : k \in 1..Len(units) }
    IN  (IF Len(encoded) < FRAME_MIN_SIZE THEN { "UnexpectedEOF" } ELSE {})
        \cup (IF encoded[1] # BEGIN_FRAME_BYTE THEN { "InvalidStartByte" } ELSE {})
        \cup (IF encoded[Len(encoded)] # END_FRAME_BYTE THEN { "InvalidEndByte" } ELSE {})
        \cup (IF DeclaresTooBig(encoded) THEN { "DataTooBig" } ELSE {})
        \cup (errors \cap { "InvalidEscapeSequence", "InvalidByte" })

\* the place of an error in the order of the errors of deserialize
Priority(err) ==
    CASE err = "UnexpectedEOF" -> 1
      [] err \in { "InvalidStartByte", "InvalidEndByte" } -> 2
      [] err = "DataTooBig" -> 3
      [] err = "InvalidEscapeSequence" -> 4
      [] err = "InvalidByte" -> 5
      [] err = "ExpectedEOF" -> 6
      [] err = "CRC32MissMatch" -> 7
      [] OTHER -> 8

\* C20 as stated: of the error conditions an input exhibits, deserialize_from
\* reports one that comes first in the order UnexpectedEOF, InvalidStartByte /
\* InvalidEndByte, DataTooBig, InvalidEscapeSequence, InvalidByte, ExpectedEOF,
\* CRC32MissMatch; so an input of at least 10 bytes with BEGIN and END in
\* place that declares a length above FRAME_DATA_MAX_SIZE yields DataTooBig
\* whatever else its interior holds
C20_ErrorPriority ==
    (codecPc = "deserialized" /\ Exhibits(out) # {}) =>
        /\ deserializeResult \in Exhibits(out)
        /\ \A c \in Exhibits(out) : Priority(deserializeResult) <= Priority(c)

\* the error of the leftmost unsound unit, "none" when every unit is sound
RECURSIVE FirstUnitError(_)
FirstUnitError(units) ==
    IF units = <<>> THEN "none"
    ELSE IF UnitError(Head(units)) # "none" THEN UnitError(Head(units))
    ELSE FirstUnitError(Tail(units))

\* the results the amended order allows for an input
OrderedErrors(encoded) ==
    LET units == Units(Interior(encoded))
        declared == UnitValue(units[3]) * TwoTo8 + UnitValue(units[4])
    IN  IF Len(encoded) < FRAME_MIN_SIZE THEN { "UnexpectedEOF" }
        ELSE IF encoded[1] # BEGIN_FRAME_BYTE THEN { "InvalidStartByte" }
        ELSE IF encoded[Len(encoded)] # END_FRAME_BYTE THEN { "InvalidEndByte" }
        ELSE IF FirstUnitError(units) # "none" THEN { FirstUnitError(units) }
        ELSE IF Len(units) < 4 THEN { "UnexpectedEOF" }
        ELSE IF declared > FRAME_DATA_MAX_SIZE THEN { "DataTooBig" }
        ELSE IF Len(units) < 4 + declared + 4 THEN { "UnexpectedEOF" }
        ELSE IF Len(units) > 4 + declared + 4 THEN { "ExpectedEOF" }
        ELSE { "CRC32MissMatch", "DeserializeOk" }

\* C20 as amended: deserialize_from reports the first condition that fails in
\* the order: fewer than 10 bytes (UnexpectedEOF), InvalidStartByte,
\* InvalidEndByte, the leftmost fault met while un-escaping the interior
\* (InvalidEscapeSequence, InvalidByte, or UnexpectedEOF for an escape marker
\* with nothing after it), and only for an interior that un-escapes cleanly
\* DataTooBig, UnexpectedEOF for missing field bytes, ExpectedEOF, and
\* CRC32MissMatch
C20_DecodeOrder ==
    codecPc = "deserialized" => deserializeResult \in OrderedErrors(out)

\* an input of 10 bytes or more with BEGIN and END in place that declares a
\* length above FRAME_DATA_MAX_SIZE and holds an unrecognized escape code
\* after the length field was decoded, and InvalidEscapeSequence was reported
C20_Witness ==
    /\ codecPc = "deserialized"
    /\ Len(out) >= FRAME_MIN_SIZE
    /\ out[1] = BEGIN_FRAME_BYTE
    /\ out[Len(out)] = END_FRAME_BYTE
    /\ DeclaresTooBig(out)
    /\ FirstUnitError(Units(Interior(out))) = "InvalidEscapeSequence"
    /\ deserializeResult = "InvalidEscapeSequence"

(***************************************************************************)
(* Claims about the command dispatcher and the command handlers.           *)
(***************************************************************************)
\* the table entry whose name is the first token of the call, else 0
NamedEntry ==
    IF cmdLog.args = <<>> THEN 0
    ELSE LET hits == { k \in 1..Len(kCommandHandlers) :
                          kCommandHandlers[k].commandName = cmdLog.args[1] }
         IN  IF hits = {} THEN 0 ELSE CHOOSE k \in hits : TRUE

\* least and greatest argument count of ON, OFF, SET_FREQ, SET_DUTY_CYCLES, STATUS
ArityRanges == << <<0, 0>>, <<0, 0>>, <<1, 1>>, <<1, 312>>, <<0, 0>> >>

\* C15: when the first token names a table entry, ExecuteCommand writes
\* INVALID_ARGUMENT without invoking a handler exactly when the number of
\* tokens after the name is outside the entry's range (ON, OFF, STATUS 0..0,
\* SET_FREQ 1..1, SET_DUTY_CYCLES 1..312), and otherwise invokes that entry's
\* handler once and no other.
C15_DispatchArity ==
    (cmdLog.called /\ NamedEntry # 0) =>
        LET n == Len(cmdLog.args) - 1
            outside == n < ArityRanges[NamedEntry][1] \/ n > ArityRanges[NamedEntry][2]
        IN  /\ outside <=> (cmdLog.ret = kInvalidArgument /\ cmdLog.invoked = <<>>)
            /\ outside => (gDeviceState = cmdLog.before /\ cmdLog.calls = <<>>)
            /\ ~outside => cmdLog.invoked = << kCommandHandlers[NamedEntry].callback >>

\* SET_DUTY_CYCLES with 313 arguments was refused
C15_Witness ==
    /\ cmdLog.called
    /\ cmdLog.args = LongDutyCycles(313)
    /\ cmdLog.ret = kInvalidArgument
    /\ cmdLog.invoked = <<>>

\* C16: ExecuteCommand writes UNKNOWN_COMMAND and invokes no handler when there
\* is no token or the first token is not, character for character, one of the
\* five command names; no call invokes more than one handler.
C16_UnknownCommand ==
    cmdLog.called =>
        /\ NamedEntry = 0 =>
               /\ cmdLog.ret = kUnknownCommand
               /\ cmdLog.invoked = <<>>
               /\ cmdLog.calls = <<>>
               /\ gDeviceState = cmdLog.before
        /\ Len(cmdLog.invoked) <= 1

\* "ONE", which begins like ON, was answered UNKNOWN_COMMAND
C16_Witness ==
    /\ cmdLog.called
    /\ cmdLog.args # <<>>
    /\ cmdLog.args[1] = << 79, 78, 69 >>
    /\ Len(cmdLog.args) = 1
    /\ cmdLog.ret = kUnknownCommand

\* every character of tok is a decimal digit
AllDigits(tok) == tok # <<>> /\ \A i \in 1..Len(tok) : tok[i] \in 48..57

C18_FreqRejected ==
    (/\ cmdLog.called
     /\ cmdLog.invoked = << "CmdSetFreq" >>
     /\ AllDigits(cmdLog.args[2])
     /\ (Horner(cmdLog.args[2]) = 0 \/ Horner(cmdLog.args[2]) > TIMER_FREQ)) =>
        /\ ~fault
        /\ cmdLog.ret = kInvalidFrequency
        /\ htim2.ARR = cmdLog.beforeARR
        /\ gDeviceState = cmdLog.before
        /\ cmdLog.calls = <<>>

\* C19: once duty cycles have been set, CmdStatus answers STATUS_RESP, the
\* generation flag, the frequency of the current period, and the percentages
\* as they were given, in order.
C19_StatusPercentages ==
    (/\ cmdLog.called
     /\ cmdLog.invoked = << "CmdStatus" >>
     /\ cmdLog.before.userDutyCycles # <<>>) =>
        cmdLog.ret =
            kStatusResp
            \o << SPACE, ZERO_CHAR + (IF cmdLog.before.isPwmGenerated THEN 1 ELSE 0) >>
            \o << SPACE >> \o Decimal(TIMER_FREQ \div (cmdLog.beforeARR + 1))
            \o SpaceJoined([i \in 1..Len(cmdLog.before.userDutyCycles) |->
                               Decimal(cmdLog.before.userDutyCycles[i])])

\* whether the PWM runs when call k of a handler is made: as before the
\* command, or as the last start or stop before call k left it
RunningAt(k) ==
    LET earlier == { i \in 1..(k - 1) : cmdLog.calls[i] \in {"start", "stop"} }
    IN  IF earlier = {} THEN cmdLog.before.isPwmGenerated
        ELSE cmdLog.calls[CHOOSE i \in earlier : \A j \in earlier : j <= i] = "start"

\* C30: CmdSetFreq and CmdSetDutyCycles leave isPwmGenerated as it was,
\* accepted or rejected; only ON sets the flag and only OFF clears it; a handler
\* starts the PWM only while it is stopped and stops it only while it runs, so
\* ON when on and OFF when off make no call on the hardware
C30_GenerationFlag ==
    cmdLog.called =>
        /\ cmdLog.invoked \in { << "CmdSetFreq" >>, << "CmdSetDutyCycles" >> } =>
               gDeviceState.isPwmGenerated = cmdLog.before.isPwmGenerated
        /\ (gDeviceState.isPwmGenerated /\ ~cmdLog.before.isPwmGenerated) =>
               cmdLog.invoked = << "CmdPwmOn" >>
        /\ (~gDeviceState.isPwmGenerated /\ cmdLog.before.isPwmGenerated) =>
               cmdLog.invoked = << "CmdPwmOff" >>
        /\ \A k \in 1..Len(cmdLog.calls) :
               /\ cmdLog.calls[k] = "start" => ~RunningAt(k)
               /\ cmdLog.calls[k] = "stop" => RunningAt(k)
        /\ (cmdLog.invoked = << "CmdPwmOn" >> /\ cmdLog.before.isPwmGenerated) =>
               cmdLog.calls = <<>>
        /\ (cmdLog.invoked = << "CmdPwmOff" >> /\ ~cmdLog.before.isPwmGenerated) =>
               cmdLog.calls = <<>>

C30_Witness ==
    /\ cmdLog.called
    /\ cmdLog.invoked = << "CmdSetFreq" >>
    /\ cmdLog.before.isPwmGenerated
    /\ cmdLog.calls = << "stop", "setPeriod", "start" >>
    /\ htim2.ARR # cmdLog.beforeARR
    /\ gDeviceState.isPwmGenerated

(***************************************************************************)
(* Claims about the responses SendData puts on the line.                   *)
(***************************************************************************)
\* C21: for the response a handler wrote to a request that fits a frame,
\* SendData either hands over a frame whose payload is the whole response or
\* hands over nothing; it never sends a frame that carries a shorter payload
C21_NoSilentTruncation ==
    (cmdLog.called /\ Len(RequestPayload(cmdLog.args)) <= FRAME_DATA_MAX_SIZE) =>
        \A k \in 1..Len(cmdLog.sends) :
            \/ cmdLog.sends[k].bytes = <<>>
            \/ cmdLog.sends[k].frame.data = cmdLog.sends[k].data

(***************************************************************************)
(* Claims about recovery of the receive path.                              *)
(***************************************************************************)
\* the frames among fs that are addressed to this device
ForLocal(fs) == SelectSeq(fs, LAMBDA f : f.receiver = LOCAL_ID)

\* piece k of the stream is a valid frame for LOCAL_ID and its END is committed
CommittedLocal(k) ==
    /\ k <= Len(sent)
    /\ sent[k].frame # <<>>
    /\ sent[k].frame[1].receiver = LOCAL_ID
    /\ Len(Flatten(SubSeq(sent, 1, k))) <= nReceived

\* GetFrame has returned the frames of the pieces up to k, each once and in
\* order, and those for LOCAL_ID went on to ParseCommands
DispatchedOnce(k) ==
    /\ k <= Len(sent)
    /\ IsPrefix(FramesOf(SubSeq(sent, 1, k)), returned)
    /\ handled = ForLocal(returned)

\* C23: with HandlePendingCommands called again and again and no byte
\* evicted from the receive ring, every valid frame for LOCAL_ID whose END is
\* committed is eventually returned by GetFrame and dispatched, and no frame is
\* returned or dispatched twice, whatever noise, abandoned frames, damaged
\* frames or frames for other receivers come before it
C23_RecoveryLiveness ==
    /\ [](IsPrefix(returned, FramesOf(sent)) /\ handled = ForLocal(returned))
    /\ \A k \in 1..MaxSegs : CommittedLocal(k) ~> DispatchedOnce(k)

C23_Witness ==
    /\ Len(sent) = 2
    /\ sent[1].bytes = Corrupt(Encoded(FrameToLocal))
    /\ sent[2].frame = << FrameToLocal >>
    /\ nReceived = Len(wire)
    /\ handled = << FrameToLocal >>
    /\ gDeviceState.isPwmGenerated

\* C25: when the scan from tail + 1 meets another BEGIN before any END,
\* GetFrame leaves tail on that later BEGIN and returns no frame without
\* running the decoder; the call that follows starts at that BEGIN and returns
\* the complete valid frame that begins there
C25_Resync ==
    LET c == Contents(getLog.before)
        b == FirstIn(c, {BEGIN_FRAME_BYTE}, 1)
        e == IF b = 0 THEN 0 ELSE FirstIn(c, {BEGIN_FRAME_BYTE, END_FRAME_BYTE}, b + 1)
    IN  /\ (getLog.outcome # "none" /\ e # 0 /\ c[e] = BEGIN_FRAME_BYTE) =>
               /\ getLog.outcome = "resync"
               /\ getLog.tail = (getLog.before.tail + e - 1) % getCapacity(getLog.before)
               /\ getLog.ret = <<>>
               /\ "decode" \notin getLog.masked
        /\ getLog.outcome = "resync" =>
               /\ e # 0 /\ c[e] = BEGIN_FRAME_BYTE
               /\ gRxBuffer.buf[gRxBuffer.tail] = BEGIN_FRAME_BYTE
               /\ \E next \in { GetFrame(gRxBuffer) } :
                      LET c2 == Contents(gRxBuffer)
                          e2 == FirstIn(c2, {BEGIN_FRAME_BYTE, END_FRAME_BYTE}, 2)
                          whole == deserialize_from_span(NoFrame, SubSeq(c2, 1, e2))
                      IN  /\ next.begin = gRxBuffer.tail
                          /\ (/\ e2 # 0
                              /\ c2[e2] = END_FRAME_BYTE
                              /\ whole.err = "DeserializeOk") =>
                                 next.ret = << whole.frame >>

C25_Witness ==
    /\ getLog.outcome = "resync"
    /\ getLog.before.tail > getLog.tail
    /\ GetFrame(gRxBuffer).ret = << FrameToLocal >>

\* distance of slot i from tail, going round the ring
FromTail(i) == (i - gRxBuffer.tail) % getCapacity(gRxBuffer)

\* C26: on a ring with BEGIN at tail and an END before head, the buffer-based
\* decoder ends, idx goes from the slot after tail no further than the first
\* END, where it stops unless a byte before it is in error, and no slot is
\* read but those from tail to the newest byte, also when the window wraps
C26_InsideWindow ==
    (pc = "window" /\ decodeLog.called) =>
        LET end == Len(out) - 1
        IN  /\ \A i \in decodeLog.visited : FromTail(i) \in 1..end
            /\ \A i \in decodeLog.reads : FromTail(i) < Len(wire)
            /\ decodeLog.err \in {"DeserializeOk", "CRC32MissMatch", "ExpectedEOF",
                                   "DataTooBig"} =>
                   \E i \in decodeLog.visited : FromTail(i) = end

C26_Witness ==
    /\ pc = "window"
    /\ decodeLog.called
    /\ decodeLog.err = "InvalidEscapeSequence"
    /\ out[Len(out) - 1] = ESCAPE_BYTE
    /\ Len(wire) > Len(out)
    /\ gRxBuffer.head < gRxBuffer.tail

\* C27: on such a ring, whatever follows the END, the buffer-based decoder
\* gives DeserializeOk exactly when the linear decoder does on the bytes of the
\* window, and then both give the same Frame
C27_DecodersAgree ==
    (pc = "window" /\ decodeLog.called /\ codecPc = "deserialized") =>
        /\ (decodeLog.err = "DeserializeOk") <=> (deserializeResult = "DeserializeOk")
        /\ decodeLog.err = "DeserializeOk" => decodeLog.frame = << dstFrame >>

C27_Witness ==
    /\ pc = "window"
    /\ decodeLog.called
    /\ codecPc = "deserialized"
    /\ decodeLog.err = "DeserializeOk"
    /\ dstFrame.data # <<>>
    /\ gRxBuffer.head < gRxBuffer.tail
    /\ Len(wire) > Len(out)

\* C24: GetFrame masks the interrupt only around its reads and writes of head
\* and tail; the scan for END and the decode run with the interrupt enabled
C24_MaskScope ==
    getLog.outcome # "none" => getLog.masked \cap {"scan", "decode"} = {}

(***************************************************************************)
(* Claims about the receive path under overrun.                            *)
(***************************************************************************)
\* the places in the byte stream of the k-th piece of the stream
RECURSIVE Offset(_, _)
Offset(script, k) == IF k <= 1 THEN 0 ELSE Len(script[k - 1].bytes) + Offset(script, k - 1)

Places(script, k) == (Offset(script, k) + 1)..(Offset(script, k) + Len(script[k].bytes))

\* the places GetFrame has just decoded a frame from
ReturnedFrom == IF getLog.ret = <<>> THEN {} ELSE getLog.begin..getLog.end

\* C31: whatever the interrupt has evicted, the ring holds the newest bytes
\* of the stream in order, and a frame GetFrame returns is what the bytes at
\* one run of places of the received stream decode to, a run that begins with
\* a BEGIN, ends with the first END after it, holds no other BEGIN and no
\* evicted place; no byte of a piece that lost a byte to eviction is in it
C31_NoSplice ==
    /\ Contents(gRxBuffer) =
           SubSeq(wire, nReceived - Len(Contents(gRxBuffer)) + 1, nReceived)
    /\ getLog.ret # <<>> =>
           LET segment == SubSeq(wire, getLog.begin, getLog.end)
               linear == deserialize_from_span(NoFrame, segment)
           IN  /\ 1 <= getLog.begin
               /\ getLog.end <= nReceived
               /\ segment[1] = BEGIN_FRAME_BYTE
               /\ segment[Len(segment)] = END_FRAME_BYTE
               /\ \A i \in 2..(Len(segment) - 1) :
                      segment[i] \notin {BEGIN_FRAME_BYTE, END_FRAME_BYTE}
               /\ linear.err = "DeserializeOk"
               /\ getLog.ret = << linear.frame >>
               /\ ReturnedFrom \cap evicted = {}
               /\ \A k \in 1..Len(sent) :
                      Places(sent, k) \cap evicted # {} =>
                          Places(sent, k) \cap ReturnedFrom = {}

\* a frame is returned from behind a frame that lost its first bytes, and no
\* others, to eviction
C31_Witness ==
    /\ getLog.ret # <<>>
    /\ Len(sent) = 2
    /\ sent[1].frame # <<>>
    /\ 1 \in evicted
    /\ Places(sent, 1) \cap evicted # Places(sent, 1)
    /\ ReturnedFrom = Places(sent, 2)
    /\ returned = sent[2].frame

(***************************************************************************)
(* Claims about the transmit path.                                         *)
(***************************************************************************)
\* bytes of stream stored in the ring so far, and bytes whose transmission
\* is over
Queued == Len(stream) - (Len(serialized) - wrote)

Transmitted == Len(huart2.handed) - Len(huart2.inFlight)

\* C28: UART_puts returns the number of bytes it stored, appends them behind
\* the bytes still waiting and stops at a full ring, so that the ring always
\* holds the bytes of the frames between the one in transmission and the last
\* one stored; the bytes handed to the UART are the bytes of the frames in
\* order, each once; and while the transmit-complete interrupt keeps firing
\* SendData returns and the UART is handed every byte
C28_TransmitRetry ==
    /\ [](putLog.called =>
             /\ Contents(txBuffer) = Contents(putLog.before) \o Take(putLog.v, putLog.ret)
             /\ putLog.ret < Len(putLog.v) =>
                    (txBuffer.head + 1) % getCapacity(txBuffer) = txBuffer.tail)
    /\ [](/\ IsPrefix(huart2.handed, stream)
          /\ Contents(txBuffer) = SubSeq(stream, Transmitted + 1, Queued))
    /\ (txPc = "loop") ~> (txPc = "idle")
    /\ []<>(huart2.handed = stream)

C28_Witness ==
    /\ putLog.called
    /\ putLog.ret > 0
    /\ putLog.ret < Len(putLog.v)
    /\ wrote > TxCap
    /\ nSends = 2
    /\ txBuffer.head < txBuffer.tail

\* C29: between UART_puts calls and transmit-complete interrupts busy is set
\* exactly when the ring holds a byte, one transmission is in progress when
\* it is set, that of the byte at tail, and none when it is clear; no
\* transmission is requested while another is in progress
C29_BusyFlag ==
    /\ busy <=> txBuffer.head # txBuffer.tail
    /\ huart2.inFlight = IF busy THEN << txBuffer.tail >> ELSE <<>>
    /\ ~huart2.refused

C29_Witness ==
    /\ busy
    /\ txPc = "idle"
    /\ nSends = 2
    /\ Len(huart2.handed) > Len(serialized)
    /\ huart2.inFlight = << txBuffer.tail >>

(***************************************************************************)
(* Claims about the size of the wire form.                                 *)
(***************************************************************************)
\* C22: serializing a Frame whose payload is at most FRAME_DATA_MAX_SIZE bytes
\* gives at most FRAME_MAX_SIZE bytes, however many of them are escaped
C22_EncodedSizeBound ==
    (/\ codecPc = "serialized"
     /\ serializeResult = "SerializeOk"
     /\ Len(srcFrame.data) <= FRAME_DATA_MAX_SIZE) =>
        Len(out) <= FRAME_MAX_SIZE

EscapedCount(f) ==
    LET raw == RawFields(f)
    IN  Cardinality({ i \in 1..Len(raw) : NeedsEscape(raw[i]) })

\* C22 (amended): FRAME_MAX_SIZE bounds the frame before escaping. Serializing
\* a Frame whose payload is at most FRAME_DATA_MAX_SIZE bytes gives
\* FRAME_MIN_SIZE bytes plus the payload plus one byte for each escaped byte:
\* less the escapes that is at most FRAME_MAX_SIZE, and with them at most
\* FRAME_MAX_SIZE * 2, the size of the buffers the callers serialize into
C22_SizeBeforeEscaping ==
    (/\ codecPc = "serialized"
     /\ serializeResult = "SerializeOk"
     /\ Len(srcFrame.data) <= FRAME_DATA_MAX_SIZE) =>
        \E e \in { EscapedCount(srcFrame) } :
            /\ Len(out) = FRAME_MIN_SIZE + Len(srcFrame.data) + e
            /\ Len(out) - e <= FRAME_MAX_SIZE
            /\ Len(out) <= FRAME_MAX_SIZE * 2

C22_Witness ==
    /\ codecPc = "serialized"
    /\ serializeResult = "SerializeOk"
    /\ Len(srcFrame.data) = FRAME_DATA_MAX_SIZE
    /\ Len(out) > FRAME_MAX_SIZE

=============================================================================
